---- MODULE Spec2Model ----
(***************************************************************************)
(* Monitor runtime of uptime-kuma (server/model/monitor.js): the beat loop *)
(* created by Monitor.start, its retry / resend accounting, the transition *)
(* classifier, the notification path and Monitor.stop.                     *)
(*                                                                         *)
(* One Monitor object is modelled.  Every call of start() creates a new    *)
(* closure (previousBeat, retries, beat, safeBeat); a closure is a "loop". *)
(* A loop is suspended at the awaits of beat(); the actions below run the  *)
(* code between two awaits atomically, as the JavaScript event loop does.  *)
(***************************************************************************)
EXTENDS Integers, Sequences, FiniteSets, TLC

\* ---------------------------------------------------------------- bounds
MaxStarts == 2
MaxBeats == 5
MaxRetries == 2
MaxResend == 3
NumProviders == 1
MaxPush == 1
\* the smaller budget of the specification with Start and Stop
MaxLifeBeats == 3
MaxLifeRetries == 1
MaxLifeResend == 1
\* The interval and the retry interval of the monitors, in seconds.
Interval == 2
RetryInterval == 1
\* The largest number of ticks of a loop that end in an exception.
MaxFails == 1
\* The number of steps of the clock.
MaxClock == 6
\* The executions of handleTlsInfo that may overlap, and their total number.
MaxTlsRuns == 2
MaxTlsStarts == 3
\* The number of executions of handleTlsInfo run one after the other.
MaxTlsSeq == 2
\* The children of a group monitor and the beats of the group.
MaxChildren == 3
MaxGroupBeats == 1
\* The beats handed to the classifiers of important beats.
MaxClassify == 1
\* The notification providers of the monitor whose dispatch is followed
\* provider by provider.
NotifyProviders == 2
\* The stored heartbeats over which an uptime is computed.
MaxUptimeRows == 2
\* The ticks followed together with the statistics they start.
MaxCacheBeats == 2
\* The heartbeats of the runs that compare the order of emit and store.
MaxOrderBeats == 2
\* The monitors of the parent relation walked by the maintenance check.
MaxMonitors == 3
\* The intervals (seconds) and configured timeouts (seconds, from -1) of the
\* timeout normalization.
MaxTimeoutInterval == 6
MaxTimeout == 4
\* The entries of a response object, the length of an array in it and the
\* data lines of an event stream.
MaxKeys == 2
MaxArray == 1
MaxFrames == 2
\* The files of patchList, the runs of patch2 on one database and the
\* imports that fail.
MaxPatches == 3
MaxPatchRuns == 2
MaxPatchFails == 1

\* ------------------------------------------------------- program constants
DOWN == 0
UP == 1
PENDING == 2
MAINTENANCE == 3
Undefined == -1

Status == {DOWN, UP, PENDING, MAINTENANCE}
Loops == 1..MaxStarts
Providers == 1..NumProviders

\* Monitor types that differ in what the probe can leave in bean.status.
Types == {"http", "docker", "grpc-keyword", "push"}

\* What the dispatch of one probe can do to the bean:
\*   up / pending / down : bean.status assigned, nothing thrown
\*   error               : thrown with bean.status as composed
\*   errorDown           : bean.status = DOWN assigned, then thrown
ProbeOutcomes(type, upsideDown) ==
    CASE type = "http" ->
           \* without upsideDown the composed status is DOWN already
           IF upsideDown THEN {"up", "error", "errorDown"} ELSE {"up", "error"}
      [] type = "docker" -> {"up", "pending", "error"}
      [] type = "grpc-keyword" -> {"up", "down", "error"}
      [] OTHER -> {"error"}

Thrown == {"error", "errorDown"}

VARIABLES monitor, isStop, heartbeatInterval, loops, heartbeats, now, tls,
          uptimeCache, stats, database

vars == <<monitor, isStop, heartbeatInterval, loops, heartbeats, now, tls,
          uptimeCache, stats, database>>

\* The state of the beat loops.
beatVars == <<monitor, isStop, heartbeatInterval, loops, heartbeats, now,
              uptimeCache, stats, database>>

\* ------------------------------------------------------------ pure helpers
flipStatus(s) == IF s = UP THEN DOWN ELSE IF s = DOWN THEN UP ELSE s

isUpsideDown == monitor.upsideDown

\* The classifier without its PENDING -> DOWN line.
isImportantBeatNoPending(isFirstBeat, previousBeatStatus, currentBeatStatus) ==
    \/ isFirstBeat
    \/ (previousBeatStatus = DOWN /\ currentBeatStatus = MAINTENANCE)
    \/ (previousBeatStatus = UP /\ currentBeatStatus = MAINTENANCE)
    \/ (previousBeatStatus = MAINTENANCE /\ currentBeatStatus = DOWN)
    \/ (previousBeatStatus = MAINTENANCE /\ currentBeatStatus = UP)
    \/ (previousBeatStatus = UP /\ currentBeatStatus = DOWN)
    \/ (previousBeatStatus = DOWN /\ currentBeatStatus = UP)

isImportantBeat(isFirstBeat, previousBeatStatus, currentBeatStatus) ==
    \/ isFirstBeat
    \/ (previousBeatStatus = DOWN /\ currentBeatStatus = MAINTENANCE)
    \/ (previousBeatStatus = UP /\ currentBeatStatus = MAINTENANCE)
    \/ (previousBeatStatus = MAINTENANCE /\ currentBeatStatus = DOWN)
    \/ (previousBeatStatus = MAINTENANCE /\ currentBeatStatus = UP)
    \/ (previousBeatStatus = UP /\ currentBeatStatus = DOWN)
    \/ (previousBeatStatus = DOWN /\ currentBeatStatus = UP)
    \/ (previousBeatStatus = PENDING /\ currentBeatStatus = DOWN)

\* The classifier without its MAINTENANCE -> DOWN line.
isImportantForNotificationNoMaintenance(isFirstBeat, previousBeatStatus, currentBeatStatus) ==
    \/ isFirstBeat
    \/ (previousBeatStatus = UP /\ currentBeatStatus = DOWN)
    \/ (previousBeatStatus = DOWN /\ currentBeatStatus = UP)
    \/ (previousBeatStatus = PENDING /\ currentBeatStatus = DOWN)

isImportantForNotification(isFirstBeat, previousBeatStatus, currentBeatStatus) ==
    \/ isFirstBeat
    \/ (previousBeatStatus = MAINTENANCE /\ currentBeatStatus = DOWN)
    \/ (previousBeatStatus = UP /\ currentBeatStatus = DOWN)
    \/ (previousBeatStatus = DOWN /\ currentBeatStatus = UP)
    \/ (previousBeatStatus = PENDING /\ currentBeatStatus = DOWN)

\* A guard that lets every first beat through.
sendNotificationGuardOpen(isFirstBeat, status) == TRUE

\* The guard of Monitor.sendNotification.
sendNotificationGuard(isFirstBeat, status) == (~isFirstBeat) \/ status = DOWN

\* What one call of Monitor.sendNotification does, in order: the pre-command
\* once, then one Notification.send per provider of the monitor.
sendNotification(isFirstBeat, status) ==
    IF sendNotificationGuard(isFirstBeat, status)
    THEN <<[kind |-> "preCommand", arg |-> status]>>
         \o [p \in Providers |-> [kind |-> "send", arg |-> p]]
    ELSE <<>>

\* ------------------------------------------------------------------ state
NoBeat == [id |-> 0, status |-> Undefined, downCount |-> 0, time |-> 0]

NoBean == [id |-> 0, status |-> Undefined, important |-> FALSE, downCount |-> 0,
           first |-> FALSE, prevStatus |-> Undefined, prevId |-> 0,
           outcome |-> "none", failRun |-> 0, retries |-> 0, loop |-> 0,
           msg |-> <<>>, retriesBefore |-> 0, time |-> 0, duration |-> 0,
           call |-> FALSE, sent |-> <<>>, emitted |-> FALSE, emitSeq |-> 0,
           sentAfterStop |-> FALSE, emitAfterStop |-> FALSE,
           storeAfterStop |-> FALSE]

\* The database outside the patch process.
NoDatabase == [pc |-> "none"]

\* timers counts the pending setTimeout calls of the loop, and abandoned is
\* the bean of its latest tick that ended in an exception.
\* delay, due, via and ms describe the pending setTimeout of the loop: its
\* delay in ms, the time it is due, the code that armed it ("start", "store", "push", "catch") and,
\* for the push reschedule, the msSinceLastBeat it was computed from; failed
\* counts the ticks of the loop that ended in an exception.
NoLoop == [pc |-> "none", previousBeat |-> NoBeat, retries |-> 0,
           bean |-> NoBean, failRun |-> 0,
           delay |-> 0, due |-> 0, via |-> "none", ms |-> 0, failed |-> 0,
           stopSeen |-> FALSE, inFlightStop |-> FALSE, tickAfterStop |-> FALSE,
           cur |-> 0, calls |-> 0, options |-> <<>>, res |-> <<>>,
           parseData |-> <<>>, timers |-> 0, abandoned |-> NoBean]

\* One execution of handleTlsInfo: the certificate chain it was given (leaf
\* fingerprint256; per certificate, leaf first, daysRemaining and whether it is
\* a known root), the position i in the list of notify days and j in the
\* chain. old is the fingerprint it read from monitor_tls_info, deleted tells
\* whether it deleted the sent history, before is the sent history when the
\* expiry check started, tried and sentFor are the notify days it called
\* Notification.send for and the ones for which a send succeeded.
NoTlsRun == [pc |-> "idle", fp |-> "none", chain |-> <<>>, i |-> 0, j |-> 0,
             old |-> "none", deleted |-> FALSE, before |-> {},
             tried |-> {}, sentFor |-> {}]

TlsRuns == 1..MaxTlsRuns

\* The TLS state of the monitor: info is the fingerprint stored in
\* monitor_tls_info, history the days of the rows of notification_sent_history,
\* epoch counts the changes of the stored fingerprint, rounds lists the
\* notification rounds sent (threshold and epoch), starts counts the
\* executions begun.
NoTls == [expiryNotification |-> FALSE, ignoreTls |-> FALSE,
          info |-> "none", history |-> {},
          epoch |-> 0, rounds |-> <<>>, starts |-> 0,
          runs |-> [r \in TlsRuns |-> NoTlsRun]]

InFlight == {"probe", "notify", "store"}
Pending == {"deferred", "timer"}
Live == InFlight \cup Pending

\* The configurations explored: no retry or the largest number of retries,
\* no resend, a resend on every beat or the longest resend interval.
RetryChoices == {0, MaxRetries}
ResendChoices == {0, 1, MaxResend}

Configs ==
    [type : Types, upsideDown : BOOLEAN,
     maxretries : RetryChoices, resendInterval : ResendChoices,
     interval : {Interval}, retryInterval : {0}]

LifeConfigs ==
    [type : {"http", "push"}, upsideDown : BOOLEAN,
     maxretries : 0..MaxLifeRetries, resendInterval : 0..MaxLifeResend,
     interval : {Interval}, retryInterval : {0}]

\* The configurations of the scheduling runs: with and without a retry
\* interval, upside down for the push monitor only.
SchedConfigs ==
    {c \in [type : {"http", "push"}, upsideDown : BOOLEAN,
            maxretries : {MaxLifeRetries}, resendInterval : {0},
            interval : {Interval}, retryInterval : {0, RetryInterval}] :
        c.upsideDown => c.type = "push"}

Init ==
    /\ monitor \in LifeConfigs
    /\ isStop = FALSE
    /\ heartbeatInterval = 0
    /\ now = 0
    /\ tls = NoTls
    /\ uptimeCache = {}
    /\ stats = <<>>
    /\ database = NoDatabase
    /\ loops = [l \in Loops |-> NoLoop]
    /\ heartbeats = <<>>

\* R.findOne("heartbeat", " monitor_id = ? ORDER BY time DESC"): the row
\* with the greatest time, the one stored last among equal times.
latestHeartbeat ==
    IF heartbeats = <<>> THEN NoBeat
    ELSE LET i == CHOOSE i \in DOMAIN heartbeats :
                    \A j \in DOMAIN heartbeats :
                        \/ heartbeats[j].time < heartbeats[i].time
                        \/ heartbeats[j].time = heartbeats[i].time /\ j <= i
             h == heartbeats[i]
         IN [id |-> h.id, status |-> h.status, downCount |-> h.downCount,
             time |-> h.time]

\* dayjs(a).diff(dayjs(b), "second"): whole seconds, truncated towards zero.
diffSecond(a, b) ==
    IF a >= b THEN (a - b) \div 1000 ELSE -((b - a) \div 1000)

\* ------------------------------------------------------------ the beat loop
InFlightCount == Cardinality({l \in Loops : loops[l].pc \in InFlight})

\* Exploration budget: a tick begins only if its heartbeat still fits in n.
CanBegin(n) == Len(heartbeats) + InFlightCount < n

\* beat(), monitor.js 323-334: the interval of the tick in seconds.
beatInterval == IF monitor.interval = 0 THEN 1 ELSE monitor.interval

\* beat(), monitor.js 322-370: load previousBeat, compose the new bean.
beginBeat(lp, l) ==
    LET prev == IF lp.previousBeat.id = 0 \/ monitor.type = "push"
                THEN latestHeartbeat ELSE lp.previousBeat
        isFirstBeat == prev.id = 0
    IN [lp EXCEPT
          !.pc = "probe",
          !.delay = 0, !.due = 0, !.via = "none", !.ms = 0,
          !.previousBeat = prev,
          !.inFlightStop = FALSE,
          !.tickAfterStop = lp.stopSeen,
          !.bean = [NoBean EXCEPT
                      !.status = IF isUpsideDown THEN flipStatus(DOWN) ELSE DOWN,
                      !.downCount = prev.downCount,
                      !.first = isFirstBeat,
                      !.time = now,
                      !.duration = IF isFirstBeat THEN 0
                                   ELSE diffSecond(now, prev.time),
                      !.prevStatus = prev.status,
                      !.prevId = prev.id,
                      !.loop = l]]

\* Monitor.start, monitor.js 316-321 and 1225-1232.
startLoop(l) ==
    IF monitor.type = "push"
    THEN [NoLoop EXCEPT !.pc = "deferred", !.via = "start", !.timers = 1,
                        !.delay = monitor.interval * 1000,
                        !.due = now + monitor.interval * 1000]
    ELSE beginBeat(NoLoop, l)

Start(n) ==
    \E l \in Loops :
      /\ loops[l].pc = "none"
      /\ \A k \in Loops : k < l => loops[k].pc # "none"
      /\ monitor.type # "push" => CanBegin(n)
      /\ loops' = [loops EXCEPT ![l] = startLoop(l)]
      /\ UNCHANGED <<stats, uptimeCache, tls, database, now, monitor, isStop, heartbeatInterval, heartbeats>>

\* A timer of the loop fires: safeBeat() -> beat().
TimerFire(l, n) ==
    /\ loops[l].pc \in Pending
    /\ CanBegin(n)
    /\ loops' = [loops EXCEPT ![l] =
          beginBeat([loops[l] EXCEPT !.timers = @ - 1], l)]
    /\ UNCHANGED <<stats, uptimeCache, tls, database, now, monitor, isStop, heartbeatInterval, heartbeats>>

\* Monitor.stop, monitor.js 1276-1281.
Stop ==
    /\ \E l \in Loops : loops[l].pc # "none"
    /\ isStop' = TRUE
    /\ loops' = [l \in Loops |->
         LET lp == loops[l]
             cleared == heartbeatInterval = l /\ lp.pc = "timer"
         IN IF lp.pc = "none" THEN lp
            ELSE [lp EXCEPT
                    !.pc = IF cleared THEN "dead" ELSE lp.pc,
                    !.timers = IF cleared THEN lp.timers - 1 ELSE lp.timers,
                    !.delay = IF cleared THEN 0 ELSE lp.delay,
                    !.due = IF cleared THEN 0 ELSE lp.due,
                    !.stopSeen = TRUE,
                    !.inFlightStop = lp.pc \in InFlight \/ lp.inFlightStop]]
    /\ UNCHANGED <<stats, uptimeCache, tls, database, now, monitor, heartbeatInterval, heartbeats>>

\* A retry that is granted one failure too late.
retryAllowedLate(retries) ==
    monitor.maxretries > 0 /\ retries <= monitor.maxretries

\* The retry test of the catch block, monitor.js 1128.
retryAllowed(retries) ==
    monitor.maxretries > 0 /\ retries < monitor.maxretries

\* retries left as they are when the try block ends.
keepRetries(retries) == retries

\* The end of the try block, monitor.js 1114: retries = 0.
resetRetries(retries) == 0

\* A flip that throws for every status but UP.
flipThrowsUnlessUp(status) == status # UP

\* The test after the flip, monitor.js 1109: "Flip UP to DOWN" is thrown.
flipThrows(status) == status = DOWN

\* The message of the error a driver throws.
errorMessage ==
    IF monitor.type = "push" THEN <<"No heartbeat in the time window">>
    ELSE <<"error">>

\* The try block of beat(), monitor.js 372-1114, and its catch, 1116-1132:
\* the status and the msg the probe leaves and the retry accounting.
\* msg is the sequence of the parts the code concatenates.
\* Result: [status, retries, msg].
retryAccounting(composed, retries, maint, outcome) ==
    LET tried ==
          IF maint
          THEN [status |-> MAINTENANCE, thrown |-> FALSE,
                msg |-> <<"Monitor under maintenance">>]
          ELSE CASE outcome = "up" ->
                      [status |-> UP, thrown |-> FALSE, msg |-> <<"probe">>]
                 [] outcome = "pending" ->
                      [status |-> PENDING, thrown |-> FALSE, msg |-> <<"probe">>]
                 [] outcome = "down" ->
                      [status |-> DOWN, thrown |-> FALSE, msg |-> <<"probe">>]
                 [] outcome = "errorDown" ->
                      [status |-> DOWN, thrown |-> TRUE,
                       msg |-> <<"probe", "content parameters are null">>]
                 [] OTHER ->
                      [status |-> composed, thrown |-> TRUE, msg |-> errorMessage]
        flipped ==
          IF (~tried.thrown) /\ isUpsideDown
          THEN IF flipThrows(flipStatus(tried.status))
               THEN [status |-> flipStatus(tried.status), thrown |-> TRUE,
                     msg |-> <<"Flip UP to DOWN">>]
               ELSE [tried EXCEPT !.status = flipStatus(tried.status)]
          ELSE tried
    IN IF ~flipped.thrown
       THEN [status |-> flipped.status, retries |-> resetRetries(retries),
             msg |-> flipped.msg]
       ELSE IF isUpsideDown /\ flipped.status = UP
            THEN [status |-> flipped.status, retries |-> 0, msg |-> flipped.msg]
            ELSE IF retryAllowed(retries)
                 THEN [status |-> PENDING, retries |-> retries + 1,
                       msg |-> flipped.msg]
                 ELSE [status |-> flipped.status, retries |-> retries,
                       msg |-> flipped.msg]

\* A resend that waits one beat too long.
resendDueLate(downCount) == downCount > monitor.resendInterval

\* The resend test of beat(), monitor.js 1163.
resendDue(downCount) == downCount >= monitor.resendInterval

\* beat(), monitor.js 1134-1172 up to the await of sendNotification:
\* importance, and whether sendNotification is called.
classify(b) ==
    LET isImportant == isImportantBeat(b.first, b.prevStatus, b.status)
    IN IF isImportant
       THEN [b EXCEPT
               !.important = TRUE,
               !.call = isImportantForNotification(b.first, b.prevStatus, b.status)]
       ELSE IF b.status = DOWN /\ monitor.resendInterval > 0
            THEN [b EXCEPT
                    !.important = FALSE,
                    !.downCount = b.downCount + 1,
                    !.call = resendDue(b.downCount + 1)]
            ELSE [b EXCEPT !.important = FALSE, !.call = FALSE]

\* The heartbeats emitted so far whose R.store succeeded or is awaited.
emitCount ==
    Len(heartbeats) + Cardinality({l \in Loops : loops[l].pc = "store"})

\* downCount left as it is after a resend.
afterNotificationNoReset(b, stopped) ==
    [b EXCEPT
       !.downCount = IF b.important THEN 0 ELSE b.downCount,
       !.emitted = TRUE,
       !.emitSeq = emitCount + 1,
       !.emitAfterStop = stopped]

\* beat(), monitor.js 1149-1190 after sendNotification returned: the reset
\* of downCount and the emit of the heartbeat on the socket.
afterNotification(b, stopped) ==
    [b EXCEPT
       !.downCount = IF b.important \/ b.call THEN 0 ELSE b.downCount,
       !.emitted = TRUE,
       !.emitSeq = emitCount + 1,
       !.emitAfterStop = stopped]

\* The push probe, monitor.js 830-858: the buffer added to the window.
bufferTime == 1000

\* monitor.js 839: the status a push monitor expects of its latest heartbeat.
goodStatus == IF isUpsideDown THEN DOWN ELSE UP

\* The times since the latest heartbeat tried for a push monitor whose
\* latest heartbeat has the expected status (otherwise the time is not
\* looked at): at once, between the deadline and the end of the buffer, at
\* the end of the buffer, and past it.
MsChoices ==
    {0, beatInterval * 1000 + 500,
     beatInterval * 1000 + bufferTime, beatInterval * 1000 + bufferTime + 1}

\* A window without the buffer.
insideWindowNoBuffer(msSinceLastBeat) ==
    ~(msSinceLastBeat > beatInterval * 1000)

\* monitor.js 839: the heartbeat is not older than the interval plus buffer.
insideWindow(msSinceLastBeat) ==
    ~(msSinceLastBeat > beatInterval * 1000 + bufferTime)

\* monitor.js 842-851: the delay of the next check of a push monitor.
pushTimeout(msSinceLastBeat) ==
    LET timeout == beatInterval * 1000 - msSinceLastBeat
    IN IF timeout < 0 THEN bufferTime ELSE timeout + bufferTime

\* The next tick always after the plain interval.
nextDelayNoRetryInterval(status) == beatInterval * 1000

\* monitor.js 1176-1179 and 1202: the delay of the next tick after a stored
\* heartbeat.
nextDelay(status) ==
    IF status = PENDING /\ monitor.retryInterval > 0
    THEN monitor.retryInterval * 1000
    ELSE beatInterval * 1000

\* A catch block that arms no timer.
timersAfterCatchNone(stopped) == 0

\* safeBeat, monitor.js 1219-1222: the timers the catch block sets.
timersAfterCatch(stopped) == IF stopped THEN 0 ELSE 1

\* A restart after the retry interval.
catchDelayRetry == monitor.retryInterval * 1000

\* safeBeat, monitor.js 1220: the delay of the restart after an exception.
catchDelay == monitor.interval * 1000

\* The probe of loop l returns (or throws).
ProbeDone(l) ==
    /\ loops[l].pc = "probe"
    /\ \E maint \in BOOLEAN,
          msSinceLastBeat \in
            (IF /\ monitor.type = "push"
                /\ loops[l].previousBeat.status = goodStatus
             THEN MsChoices ELSE {0}),
          outcome \in ProbeOutcomes(monitor.type, isUpsideDown) :
         LET lp == loops[l]
             prev == lp.previousBeat
             pushOk == /\ ~maint
                       /\ monitor.type = "push"
                       /\ prev.id # 0
                       /\ prev.status = goodStatus
                       /\ insideWindow(msSinceLastBeat)
             acc == retryAccounting(lp.bean.status, lp.retries, maint, outcome)
             run == IF (~maint) /\ outcome \in Thrown THEN lp.failRun + 1 ELSE 0
             b0 == [lp.bean EXCEPT
                      !.status = acc.status,
                      !.outcome = IF maint THEN "maintenance" ELSE outcome,
                      !.failRun = run,
                      !.retries = acc.retries,
                      !.retriesBefore = lp.retries,
                      !.msg = acc.msg]
             b1 == classify(b0)
             await == b1.call /\ sendNotificationGuard(b1.first, b1.status)
         IN IF pushOk
            THEN \* monitor.js 843-855: no heartbeat, next check scheduled
                 /\ loops' = [loops EXCEPT ![l] =
                       [lp EXCEPT !.pc = "timer", !.retries = 0,
                                  !.timers = @ + 1,
                                  !.delay = pushTimeout(msSinceLastBeat),
                                  !.due = now + pushTimeout(msSinceLastBeat),
                                  !.via = "push", !.ms = msSinceLastBeat,
                                  !.failRun = 0, !.bean = NoBean]]
                 /\ heartbeatInterval' = l
            ELSE /\ loops' = [loops EXCEPT ![l] =
                       [lp EXCEPT
                          !.pc = IF await THEN "notify" ELSE "store",
                          !.retries = acc.retries,
                          !.failRun = run,
                          !.ms = IF maint THEN 0 ELSE msSinceLastBeat,
                          !.bean = IF await THEN b1
                                   ELSE afterNotification(b1, lp.inFlightStop)]]
                 /\ UNCHANGED heartbeatInterval
    /\ UNCHANGED <<stats, uptimeCache, tls, database, now, monitor, isStop, heartbeats>>

\* Monitor.sendNotification returns, monitor.js 1580-1618.
NotifyDone(l) ==
    /\ loops[l].pc = "notify"
    /\ LET lp == loops[l]
           b == [lp.bean EXCEPT
                   !.sent = sendNotification(lp.bean.first, lp.bean.status),
                   !.sentAfterStop = lp.inFlightStop]
       IN loops' = [loops EXCEPT ![l] =
             [lp EXCEPT !.pc = "store",
                        !.bean = afterNotification(b, lp.inFlightStop)]]
    /\ UNCHANGED <<stats, uptimeCache, tls, database, now, monitor, isStop, heartbeatInterval, heartbeats>>

\* R.store(bean) returns, monitor.js 1193-1205.
StoreDone(l) ==
    /\ loops[l].pc = "store"
    /\ LET lp == loops[l]
           row == [lp.bean EXCEPT !.id = Len(heartbeats) + 1,
                                  !.storeAfterStop = lp.inFlightStop]
       IN /\ heartbeats' = Append(heartbeats, row)
          /\ loops' = [loops EXCEPT ![l] =
                [lp EXCEPT
                   !.pc = IF isStop THEN "dead" ELSE "timer",
                   !.timers = IF isStop THEN @ ELSE @ + 1,
                   !.delay = IF isStop THEN 0 ELSE nextDelay(row.status),
                   !.due = IF isStop THEN 0 ELSE now + nextDelay(row.status),
                   !.via = "store", !.ms = 0,
                   !.previousBeat = [id |-> row.id, status |-> row.status,
                                     downCount |-> row.downCount,
                                     time |-> row.time],
                   !.bean = NoBean]]
          /\ heartbeatInterval' = IF isStop THEN heartbeatInterval ELSE l
    /\ UNCHANGED <<stats, uptimeCache, tls, database, now, monitor, isStop>>

\* An exception escapes beat() outside its try block (R.findOne,
\* sendNotification or R.store rejects) and is caught by safeBeat,
\* monitor.js 1210-1223.
TickFails(l) ==
    /\ loops[l].pc \in InFlight
    /\ loops[l].failed < MaxFails
    /\ loops' = [loops EXCEPT ![l] =
          [@ EXCEPT !.pc = IF isStop THEN "dead" ELSE "timer",
                    !.timers = @ + timersAfterCatch(isStop),
                    !.abandoned = loops[l].bean,
                    !.failed = @ + 1, !.ms = 0,
                    !.delay = IF isStop THEN 0 ELSE catchDelay,
                    !.due = IF isStop THEN 0 ELSE now + catchDelay,
                    !.via = "catch",
                    !.bean = NoBean]]
    /\ heartbeatInterval' = IF isStop THEN heartbeatInterval ELSE l
    /\ UNCHANGED <<stats, uptimeCache, tls, database, now, monitor, isStop, heartbeats>>

\* GET /api/push/<token>?status=up|down : an external agent posts a heartbeat
\* of a push monitor.
PushApi(n) ==
    /\ monitor.type = "push"
    /\ CanBegin(n)
    /\ Cardinality({i \in DOMAIN heartbeats : heartbeats[i].outcome = "api"}) < MaxPush
    /\ \E s \in {UP, DOWN} :
         heartbeats' = Append(heartbeats,
            [NoBean EXCEPT !.id = Len(heartbeats) + 1, !.status = s,
                           !.time = now,
                           !.duration = IF heartbeats = <<>> THEN 0
                                        ELSE diffSecond(now, latestHeartbeat.time),
                           !.outcome = "api"])
    /\ UNCHANGED <<stats, uptimeCache, tls, database, now, monitor, isStop, heartbeatInterval, loops>>

Next ==
    \/ Start(MaxLifeBeats)
    \/ Stop
    \/ \E l \in Loops : TimerFire(l, MaxLifeBeats)
    \/ \E l \in Loops : ProbeDone(l)
    \/ \E l \in Loops : NotifyDone(l)
    \/ \E l \in Loops : StoreDone(l)
    \/ PushApi(MaxLifeBeats)

\* Start, Stop and the beat loops of one Monitor object.
Spec == Init /\ [][Next]_vars

\* One runtime: the monitor has been started once and is not stopped.
InitRun ==
    /\ monitor \in Configs
    /\ isStop = FALSE
    /\ heartbeatInterval = 0
    /\ now = 0
    /\ tls = NoTls
    /\ uptimeCache = {}
    /\ stats = <<>>
    /\ database = NoDatabase
    /\ heartbeats = <<>>
    /\ loops = [l \in Loops |-> IF l = 1 THEN startLoop(1) ELSE NoLoop]

NextRun ==
    \/ TimerFire(1, MaxBeats)
    \/ ProbeDone(1)
    \/ NotifyDone(1)
    \/ StoreDone(1)
    \/ PushApi(MaxBeats)

SpecRun == InitRun /\ [][NextRun]_vars

\* One runtime with its scheduling: started once, it may be stopped, and a
\* tick may end in an exception.
InitSched ==
    /\ monitor \in SchedConfigs
    /\ isStop = FALSE
    /\ heartbeatInterval = 0
    /\ now = 0
    /\ tls = NoTls
    /\ uptimeCache = {}
    /\ stats = <<>>
    /\ database = NoDatabase
    /\ heartbeats = <<>>
    /\ loops = [l \in Loops |-> IF l = 1 THEN startLoop(1) ELSE NoLoop]

NextSched ==
    \/ TimerFire(1, MaxLifeBeats)
    \/ ProbeDone(1)
    \/ NotifyDone(1)
    \/ StoreDone(1)
    \/ TickFails(1)
    \/ Stop
    \/ PushApi(MaxLifeBeats)

SpecSched == InitSched /\ [][NextSched]_vars

\* The configurations of the runs with a clock.
TimeConfigs ==
    [type : {"http", "push"}, upsideDown : {FALSE},
     maxretries : {0, MaxLifeRetries}, resendInterval : {0},
     interval : {Interval}, retryInterval : {RetryInterval}]

\* The step of the clock in ms: R.isoDateTimeMillis keeps milliseconds, and
\* half a second is enough to tell whole seconds from exact differences.
ClockStep == 500

\* Time passes.
Advance ==
    /\ now < MaxClock * ClockStep
    /\ now' = now + ClockStep
    /\ UNCHANGED <<stats, uptimeCache, tls, database, monitor, isStop, heartbeatInterval, loops, heartbeats>>

\* A timer fires no earlier than it is due.
TimerDue(l, n) ==
    /\ now >= loops[l].due
    /\ TimerFire(l, n)

InitTime ==
    /\ monitor \in TimeConfigs
    /\ isStop = FALSE
    /\ heartbeatInterval = 0
    /\ now = 0
    /\ tls = NoTls
    /\ uptimeCache = {}
    /\ stats = <<>>
    /\ database = NoDatabase
    /\ loops = [l \in Loops |-> NoLoop]
    /\ heartbeats = <<>>

NextTime ==
    \/ Advance
    \/ Start(MaxLifeBeats)
    \/ \E l \in Loops : TimerDue(l, MaxLifeBeats)
    \/ \E l \in Loops : ProbeDone(l)
    \/ \E l \in Loops : NotifyDone(l)
    \/ \E l \in Loops : StoreDone(l)
    \/ PushApi(MaxLifeBeats)

\* Start and the beat loops of one Monitor object under a clock.
SpecTime == InitTime /\ [][NextTime]_vars

\* --------------------------------------------------------- TLS certificates
\* checkCertExpiryNotifications, monitor.js 1646-1651: the default of the
\* setting tlsExpiryNotifyDays.
TlsNotifyDays == <<7, 14, 21>>

\* The certificates presented: two leaf fingerprints; days remaining 0,
\* below the first notify day, between the first and the second, and above
\* all.
Fingerprints == {"A", "B"}
DaysChoices == {5, 10, 30}
LeafDays == DaysChoices \cup {0}

\* Chains of the leaf alone.
LeafChains == {<<[days |-> d, root |-> FALSE]>> : d \in DaysChoices}

\* Chains of a leaf alone, of a leaf below an intermediate certificate and of
\* a leaf below a known root, the issuer with few days left.
Chains ==
    {<<[days |-> d, root |-> FALSE]>> : d \in LeafDays}
    \cup {<<[days |-> d, root |-> FALSE], [days |-> 5, root |-> r]>> :
            d \in LeafDays, r \in BOOLEAN}

\* checkCertExpiryNotifications, monitor.js 1654-1655 and 1671: the next
\* notify day, starting again at the leaf.
tlsNextDay(run) ==
    IF run.i < Len(TlsNotifyDays)
    THEN [run EXCEPT !.pc = "check", !.i = run.i + 1, !.j = 1]
    ELSE [run EXCEPT !.pc = "done"]

\* checkCertExpiryNotifications, monitor.js 1656-1669: the issuer of the
\* certificate, or the next notify day at the end of the chain.
tlsAdvance(run) ==
    IF run.j < Len(run.chain)
    THEN [run EXCEPT !.pc = "check", !.j = run.j + 1]
    ELSE tlsNextDay(run)

\* A secureConnect event (or the fallback after the response) hands a
\* certificate chain out of cs to handleTlsInfo, monitor.js 518-550 and
\* 1875-1883.
TlsStartWith(r, cs, n) ==
    /\ tls.runs[r].pc \in {"idle", "done"}
    /\ tls.starts < n
    /\ \E fp \in Fingerprints, chain \in cs :
         tls' = [tls EXCEPT
                   !.starts = @ + 1,
                   !.runs[r] = [NoTlsRun EXCEPT !.pc = "read", !.fp = fp,
                                                !.chain = chain]]
    /\ UNCHANGED beatVars

TlsStart(r) == TlsStartWith(r, LeafChains, MaxTlsStarts)

\* updateTlsInfo, monitor.js 1331-1339: a row of monitor_tls_info exists and
\* its fingerprint256 is not the one of the new certificate.
fingerprintChanged(info, fp) == info # "none" /\ info # fp

\* updateTlsInfo, monitor.js 1323-1341: R.findOne("monitor_tls_info") returns.
TlsRead(r) ==
    /\ tls.runs[r].pc = "read"
    /\ LET run == tls.runs[r]
           changed == fingerprintChanged(tls.info, run.fp)
       IN tls' = [tls EXCEPT
                    !.runs[r] = [run EXCEPT
                       !.old = tls.info,
                       !.pc = IF changed THEN "delete" ELSE "store"]]
    /\ UNCHANGED beatVars

\* updateTlsInfo, monitor.js 1339-1345: the fingerprint changed, the DELETE
\* of the sent history returns.
TlsDelete(r) ==
    /\ tls.runs[r].pc = "delete"
    /\ tls' = [tls EXCEPT
                 !.history = {},
                 !.runs[r] = [@ EXCEPT !.pc = "store", !.deleted = TRUE]]
    /\ UNCHANGED beatVars

\* handleTlsInfo, monitor.js 1879, and the guard of
\* checkCertExpiryNotifications, 1637: the expiry check is entered (the
\* monitor has a provider, 1638-1644).
expiryChecked(run) ==
    /\ (~tls.ignoreTls) /\ tls.expiryNotification
    /\ run.chain[1].days # 0

\* updateTlsInfo, monitor.js 1358-1359: R.store(tlsInfoBean) returns; then
\* handleTlsInfo, 1877-1882, and the head of checkCertExpiryNotifications,
\* 1636-1652.
TlsStore(r) ==
    /\ tls.runs[r].pc = "store"
    /\ LET run == [tls.runs[r] EXCEPT !.before = tls.history]
       IN tls' = [tls EXCEPT
                    !.info = run.fp,
                    !.epoch = IF tls.info # run.fp THEN @ + 1 ELSE @,
                    !.runs[r] = IF expiryChecked(run)
                                THEN [run EXCEPT !.pc = "check", !.i = 1, !.j = 1]
                                ELSE [run EXCEPT !.pc = "done"]]
    /\ UNCHANGED beatVars

\* A dedup that looks for the row of the notify day itself.
sentAlreadyExact(history, targetDays) == targetDays \in history

\* sendCertNotificationByTargetDays, monitor.js 1686-1696: a row of
\* notification_sent_history with days <= targetDays exists.
sentAlready(history, targetDays) == \E d \in history : d <= targetDays

\* checkCertExpiryNotifications, monitor.js 1654-1670, and the SELECT of
\* sendCertNotificationByTargetDays, 1686-1696, for certificate j of the
\* chain and notify day i.
TlsCheck(r) ==
    /\ tls.runs[r].pc = "check"
    /\ LET run == tls.runs[r]
           cert == run.chain[run.j]
           targetDays == TlsNotifyDays[run.i]
       IN tls' = [tls EXCEPT
                    !.runs[r] =
                      IF cert.root THEN tlsNextDay(run)
                      ELSE IF cert.days > targetDays
                              \/ sentAlready(tls.history, targetDays)
                           THEN tlsAdvance(run)
                           ELSE [run EXCEPT !.pc = "send"]]
    /\ UNCHANGED beatVars

\* sendCertNotificationByTargetDays, monitor.js 1698-1710: the round of
\* Notification.send calls returns; sent tells whether one of them succeeded.
TlsSend(r) ==
    /\ tls.runs[r].pc = "send"
    /\ \E sent \in BOOLEAN :
         LET run == [tls.runs[r] EXCEPT
                       !.tried = @ \cup {TlsNotifyDays[tls.runs[r].i]},
                       !.sentFor = IF sent
                                   THEN @ \cup {TlsNotifyDays[tls.runs[r].i]}
                                   ELSE @]
             round == [days |-> TlsNotifyDays[run.i], epoch |-> tls.epoch]
         IN tls' = [tls EXCEPT
                      !.rounds = IF sent THEN Append(@, round) ELSE @,
                      !.runs[r] = IF sent THEN [run EXCEPT !.pc = "insert"]
                                  ELSE tlsAdvance(run)]
    /\ UNCHANGED beatVars

\* sendCertNotificationByTargetDays, monitor.js 1712-1718: the INSERT returns.
TlsInsert(r) ==
    /\ tls.runs[r].pc = "insert"
    /\ LET run == tls.runs[r]
       IN tls' = [tls EXCEPT
                    !.history = @ \cup {TlsNotifyDays[run.i]},
                    !.runs[r] = tlsAdvance(run)]
    /\ UNCHANGED beatVars

InitTls ==
    /\ monitor \in {c \in LifeConfigs :
                      c.type = "http" /\ ~c.upsideDown /\ c.maxretries = 0
                      /\ c.resendInterval = 0}
    /\ isStop = FALSE
    /\ heartbeatInterval = 0
    /\ now = 0
    /\ loops = [l \in Loops |-> NoLoop]
    /\ heartbeats = <<>>
    /\ \E b \in BOOLEAN : tls = [NoTls EXCEPT !.expiryNotification = b]
    /\ uptimeCache = {}
    /\ stats = <<>>
    /\ database = NoDatabase

NextTls ==
    \/ \E r \in TlsRuns : TlsStart(r)
    \/ \E r \in TlsRuns : TlsRead(r)
    \/ \E r \in TlsRuns : TlsDelete(r)
    \/ \E r \in TlsRuns : TlsStore(r)
    \/ \E r \in TlsRuns : TlsCheck(r)
    \/ \E r \in TlsRuns : TlsSend(r)
    \/ \E r \in TlsRuns : TlsInsert(r)

\* The executions of handleTlsInfo of one https monitor.
SpecTls == InitTls /\ [][NextTls]_vars

\* The executions of handleTlsInfo one after the other, on every chain and
\* with every setting of ignoreTls and expiryNotification.
InitTlsSeq ==
    /\ monitor \in {c \in LifeConfigs :
                      c.type = "http" /\ ~c.upsideDown /\ c.maxretries = 0
                      /\ c.resendInterval = 0}
    /\ isStop = FALSE
    /\ heartbeatInterval = 0
    /\ now = 0
    /\ loops = [l \in Loops |-> NoLoop]
    /\ heartbeats = <<>>
    /\ \E e \in BOOLEAN, g \in BOOLEAN :
         tls = [NoTls EXCEPT !.expiryNotification = e, !.ignoreTls = g]
    /\ uptimeCache = {}
    /\ stats = <<>>
    /\ database = NoDatabase

NextTlsSeq ==
    \/ TlsStartWith(1, Chains, MaxTlsSeq)
    \/ TlsRead(1)
    \/ TlsDelete(1)
    \/ TlsStore(1)
    \/ TlsCheck(1)
    \/ TlsSend(1)
    \/ TlsInsert(1)

SpecTlsSeq == InitTlsSeq /\ [][NextTlsSeq]_vars

\* ------------------------------------------------------------ group monitor
\* The latest heartbeat of a child: none yet (Undefined) or its status.
ChildBeats == {Undefined, DOWN, UP, PENDING, MAINTENANCE}
Children == [active : BOOLEAN, last : ChildBeats]

RECURSIVE groupFold(_, _)
\* beat, monitor.js 382-398: the loop over the children, from the status
\* reached so far.
groupFold(status, children) ==
    IF children = <<>> THEN status
    ELSE LET child == Head(children)
             next ==
                IF ~child.active THEN status
                ELSE IF child.last = Undefined THEN PENDING
                ELSE IF status = UP /\ child.last \in {PENDING, DOWN}
                     THEN child.last
                ELSE IF status = PENDING /\ child.last = DOWN
                     THEN child.last
                ELSE status
         IN groupFold(next, Tail(children))

\* beat, monitor.js 376-407: the status and the message of a group beat.
groupStatus(children) ==
    IF Len(children) > 0 THEN groupFold(UP, children) ELSE PENDING

groupMsg(children) ==
    IF Len(children) > 0
    THEN IF groupStatus(children) # UP THEN "Child inaccessible"
         ELSE "All children up and running"
    ELSE "Group empty"

\* A tick of a group monitor that is not under maintenance, monitor.js
\* 376-407, 1114 and 1193: the aggregate is computed and the heartbeat stored.
GroupBeat ==
    /\ monitor.type = "group"
    /\ Len(heartbeats) < MaxGroupBeats
    /\ heartbeats' = Append(heartbeats,
          [id |-> Len(heartbeats) + 1,
           status |-> groupStatus(monitor.children),
           msg |-> groupMsg(monitor.children),
           children |-> monitor.children])
    /\ UNCHANGED <<monitor, isStop, heartbeatInterval, loops, now, tls, database, uptimeCache, stats>>

\* The runtime of child i stores a heartbeat of status s, monitor.js 1193,
\* which becomes the child's latest, 387.
ChildBeat(i, s) ==
    /\ monitor.type = "group"
    /\ i \in DOMAIN monitor.children
    /\ monitor.children[i].last # s
    /\ monitor' = [monitor EXCEPT !.children[i].last = s]
    /\ UNCHANGED <<isStop, heartbeatInterval, loops, heartbeats, now, tls, database, uptimeCache, stats>>

InitGroup ==
    /\ \E n \in 0..MaxChildren : \E cs \in [1..n -> Children] :
          monitor = [type |-> "group", upsideDown |-> FALSE, maxretries |-> 0,
                     resendInterval |-> 0, interval |-> Interval,
                     retryInterval |-> 0, children |-> cs]
    /\ isStop = FALSE
    /\ heartbeatInterval = 0
    /\ now = 0
    /\ loops = [l \in Loops |-> NoLoop]
    /\ heartbeats = <<>>
    /\ tls = NoTls
    /\ uptimeCache = {}
    /\ stats = <<>>
    /\ database = NoDatabase

NextGroup ==
    \/ GroupBeat
    \/ \E i \in 1..MaxChildren, s \in ChildBeats \ {Undefined} : ChildBeat(i, s)

\* The ticks of a group monitor over every list of children.
SpecGroup == InitGroup /\ [][NextGroup]_vars

\* ------------------------------------------------------- important beats
\* The arguments of the two classifiers: the previous status is undefined
\* when there is no previous beat, monitor.js 1135.
Statuses == {DOWN, UP, PENDING, MAINTENANCE}
ClassifyInputs ==
    [first : BOOLEAN, prevStatus : Statuses \cup {Undefined},
     status : Statuses, important : {FALSE},
     importantForNotification : {FALSE}, outcome : {"none"}]

\* beat, monitor.js 1135: isImportantBeat is applied to beat i.
ClassifyBeat(i) ==
    /\ i \in DOMAIN heartbeats
    /\ heartbeats[i].outcome = "none"
    /\ LET b == heartbeats[i]
       IN heartbeats' = [heartbeats EXCEPT ![i] =
             [b EXCEPT
                !.important = isImportantBeat(b.first, b.prevStatus, b.status),
                !.outcome = "important"]]
    /\ UNCHANGED <<monitor, isStop, heartbeatInterval, loops, now, tls, database, uptimeCache, stats>>

\* beat, monitor.js 1142: isImportantForNotification is applied to beat i
\* (here to every beat, so that the function is seen on all its arguments).
ClassifyForNotification(i) ==
    /\ i \in DOMAIN heartbeats
    /\ heartbeats[i].outcome = "important"
    /\ LET b == heartbeats[i]
       IN heartbeats' = [heartbeats EXCEPT ![i] =
             [b EXCEPT
                !.importantForNotification =
                    isImportantForNotification(b.first, b.prevStatus, b.status),
                !.outcome = "classified"]]
    /\ UNCHANGED <<monitor, isStop, heartbeatInterval, loops, now, tls, database, uptimeCache, stats>>

InitClassify ==
    /\ monitor \in {c \in LifeConfigs :
                      c.type = "http" /\ ~c.upsideDown /\ c.maxretries = 0
                      /\ c.resendInterval = 0}
    /\ isStop = FALSE
    /\ heartbeatInterval = 0
    /\ now = 0
    /\ loops = [l \in Loops |-> NoLoop]
    /\ \E n \in 1..MaxClassify : heartbeats \in [1..n -> ClassifyInputs]
    /\ tls = NoTls
    /\ uptimeCache = {}
    /\ stats = <<>>
    /\ database = NoDatabase

NextClassify ==
    \/ \E i \in 1..MaxClassify : ClassifyBeat(i)
    \/ \E i \in 1..MaxClassify : ClassifyForNotification(i)

\* The classifiers applied to every combination of their arguments.
SpecClassify == InitClassify /\ [][NextClassify]_vars

\* ------------------------------------------------- notification dispatch
\* One call of Monitor.sendNotification followed step by step, for a monitor
\* with a pre-command for either status and NotifyProviders providers. The
\* events of bean.sent carry ok: whether the command or the send succeeded.

\* A loop over the providers that ends at the first failure.
nextProviderUntilFailure(k, ok) == IF ok THEN k + 1 ELSE NotifyProviders + 1

\* sendNotification, monitor.js 1599-1616: the try/catch is inside the loop
\* body, so the loop goes on to the next provider after a success and after a
\* failure.
nextProvider(k, ok) == k + 1

\* sendNotification, monitor.js 1581-1584, and executePreCommand,
\* part_001 17-126: the guard, then the pre-command runs and fails or not;
\* its error is caught inside executePreCommand.
NotifyPreCommand(l) ==
    /\ loops[l].pc = "notify"
    /\ sendNotificationGuard(loops[l].bean.first, loops[l].bean.status)
    /\ \E ok \in BOOLEAN :
         loops' = [loops EXCEPT ![l] =
            [@ EXCEPT !.pc = "list",
                      !.bean.sent = <<[kind |-> "preCommand",
                                       arg |-> loops[l].bean.status,
                                       ok |-> ok]>>]]
    /\ UNCHANGED <<stats, uptimeCache, tls, database, now, monitor, isStop, heartbeatInterval, heartbeats>>

\* sendNotification, monitor.js 1586: Monitor.getNotificationList returns.
NotifyList(l) ==
    /\ loops[l].pc = "list"
    /\ loops' = [loops EXCEPT ![l].pc = "provider"]
    /\ UNCHANGED <<stats, uptimeCache, tls, database, now, monitor, isStop, heartbeatInterval, heartbeats>>

\* sendNotification, monitor.js 1597-1616: Notification.send for the next
\* provider returns or throws; after the last one, beat goes on to the emit,
\* 1149-1190.
NotifyProvider(l) ==
    /\ loops[l].pc = "provider"
    /\ \E ok \in BOOLEAN :
         LET lp == loops[l]
             k == Len(lp.bean.sent)
             b == [lp.bean EXCEPT
                     !.sent = Append(@, [kind |-> "send", arg |-> k, ok |-> ok])]
         IN loops' = [loops EXCEPT ![l] =
               IF nextProvider(k, ok) > NotifyProviders
               THEN [lp EXCEPT !.pc = "store",
                               !.bean = afterNotification(b, lp.inFlightStop)]
               ELSE [lp EXCEPT !.bean = b]]
    /\ UNCHANGED <<stats, uptimeCache, tls, database, now, monitor, isStop, heartbeatInterval, heartbeats>>

\* monitor.toJSON (monitor.js 1584) or Monitor.getNotificationList (1586)
\* rejects: the exception leaves sendNotification and beat and is caught by
\* safeBeat, 1210-1223. The abandoned bean is kept to tell how far the
\* dispatch got.
NotifyFails(l) ==
    /\ loops[l].pc \in {"notify", "list"}
    /\ loops' = [loops EXCEPT ![l] =
          [@ EXCEPT !.pc = "timer", !.failed = @ + 1,
                    !.timers = @ + timersAfterCatch(isStop),
                    !.delay = catchDelay, !.due = now + catchDelay,
                    !.via = "catch"]]
    /\ heartbeatInterval' = l
    /\ UNCHANGED <<stats, uptimeCache, tls, database, now, monitor, isStop, heartbeats>>

\* The beats for which beat calls sendNotification and the guard lets the
\* dispatch through, monitor.js 1135-1166 and 1581.
NotifyBeans ==
    {b \in {classify([NoBean EXCEPT !.first = f, !.prevStatus = p,
                                    !.status = s, !.outcome = "probe"]) :
               f \in BOOLEAN, p \in Statuses \cup {Undefined},
               s \in Statuses} :
       /\ b.first <=> b.prevStatus = Undefined
       /\ b.call
       /\ sendNotificationGuard(b.first, b.status)}

InitNotify ==
    /\ monitor \in {c \in LifeConfigs : c.type = "http" /\ ~c.upsideDown}
    /\ isStop = FALSE
    /\ heartbeatInterval = 0
    /\ now = 0
    /\ \E b \in NotifyBeans :
         loops = [l \in Loops |->
                    IF l = 1 THEN [NoLoop EXCEPT !.pc = "notify", !.bean = b]
                    ELSE NoLoop]
    /\ heartbeats = <<>>
    /\ tls = NoTls
    /\ uptimeCache = {}
    /\ stats = <<>>
    /\ database = NoDatabase

NextNotify ==
    \/ NotifyPreCommand(1)
    \/ NotifyList(1)
    \/ NotifyProvider(1)
    \/ NotifyFails(1)
    \/ StoreDone(1)

\* The dispatch of one tick, from the call of sendNotification to the stored
\* heartbeat.
SpecNotify == InitNotify /\ [][NextNotify]_vars

\* ------------------------------------------------------------------ uptime
\* Times are in seconds. uptimeCache is the UptimeCacheList of the monitor: the
\* uptimes computed, per window; a ratio is the pair of its numerator and
\* denominator.
HourSeconds == 3600
UptimeNow == 10000
UptimeDurations == {1, 2}
UptimeTimes ==
    {UptimeNow - 7300, UptimeNow - 3700, UptimeNow - 100, UptimeNow}
BeatDurations == {0, 60, 4000}

\* The heartbeat tables: times increase with the row, the duration of a row
\* is the whole number of seconds beat computed for it, monitor.js 359-363.
UptimeTables ==
    UNION {{t \in [1..n -> [time : UptimeTimes, duration : BeatDurations,
                            status : Statuses]] :
              \A i \in 1..n : \A j \in 1..n :
                 i < j => t[i].time < t[j].time} : n \in 0..MaxUptimeRows}

\* calcUptime, monitor.js 1437: the start of the window.
startTime(duration) == now - duration * HourSeconds

\* calcUptime, monitor.js 1470-1471: the rows of the window.
inWindow(duration) ==
    {i \in DOMAIN heartbeats : heartbeats[i].time > startTime(duration)}

\* calcUptime, monitor.js 1445-1449 and 1457-1461: the duration of a row,
\* trimmed to the part inside the window.
trimmedDuration(row, start) ==
    IF row.time - start < row.duration THEN row.time - start ELSE row.duration

\* The uptime of a row counted with its whole duration.
uptimeTermUntrimmed(row, start) ==
    IF row.status = UP \/ row.status = MAINTENANCE THEN row.duration ELSE 0

\* calcUptime, monitor.js 1453-1463: what a row adds to uptime_duration (a
\* row of another status adds NULL, which SUM skips).
uptimeTerm(row, start) ==
    IF row.status = UP \/ row.status = MAINTENANCE
    THEN trimmedDuration(row, start) ELSE 0

RECURSIVE sumRows(_, _, _)
\* SUM over the rows I of the window (NULL over no row, which the
\* comparison and the division of calcUptime read as 0).
sumRows(I, start, uptimeOnly) ==
    IF I = {} THEN 0
    ELSE LET i == CHOOSE j \in I : TRUE
             term == IF uptimeOnly THEN uptimeTerm(heartbeats[i], start)
                     ELSE trimmedDuration(heartbeats[i], start)
         IN term + sumRows(I \ {i}, start, uptimeOnly)

\* calcUptime, monitor.js 1486: the statuses R.getCell can return. The SELECT
\* has neither ORDER BY nor LIMIT, so the row whose status is read is any row
\* of the monitor; parseInt of no row is NaN (Undefined here).
firstStatus ==
    IF heartbeats = <<>> THEN {Undefined}
    ELSE {heartbeats[i].status : i \in DOMAIN heartbeats}

\* calcUptime, monitor.js 1476-1491: the ratio, given the status read by
\* R.getCell.
uptimeRatio(duration, status) ==
    LET totalDuration == sumRows(inWindow(duration), startTime(duration), FALSE)
        uptimeDuration == sumRows(inWindow(duration), startTime(duration), TRUE)
    IN IF totalDuration > 0
       THEN IF uptimeDuration < 0 THEN [num |-> 0, den |-> 1]
            ELSE [num |-> uptimeDuration, den |-> totalDuration]
       ELSE IF status = UP THEN [num |-> 1, den |-> 1]
            ELSE [num |-> 0, den |-> 1]

\* calcUptime, monitor.js 1426-1497, for a window that is not in the cache:
\* the uptime is computed, stored in the cache and returned. (A window that
\* is in the cache returns the cached value and changes nothing.)
CalcUptime(duration) ==
    /\ \A e \in uptimeCache : e.duration # duration
    /\ \E status \in firstStatus :
         uptimeCache' = uptimeCache \cup
            {[duration |-> duration, uptime |-> uptimeRatio(duration, status),
              total |-> sumRows(inWindow(duration), startTime(duration), FALSE),
              cell |-> status]}
    /\ UNCHANGED <<monitor, isStop, heartbeatInterval, loops, heartbeats, now,
                   tls, database, stats>>

\* beat, monitor.js 1188: a tick clears the cache of the monitor.
ClearCache ==
    /\ uptimeCache # {}
    /\ uptimeCache' = {}
    /\ UNCHANGED <<monitor, isStop, heartbeatInterval, loops, heartbeats, now,
                   tls, database, stats>>

InitUptime ==
    /\ monitor \in {c \in LifeConfigs :
                      c.type = "http" /\ ~c.upsideDown /\ c.maxretries = 0
                      /\ c.resendInterval = 0}
    /\ isStop = FALSE
    /\ heartbeatInterval = 0
    /\ now = UptimeNow
    /\ loops = [l \in Loops |-> NoLoop]
    /\ heartbeats \in UptimeTables
    /\ tls = NoTls
    /\ uptimeCache = {}
    /\ stats = <<>>
    /\ database = NoDatabase

NextUptime ==
    \/ \E duration \in UptimeDurations : CalcUptime(duration)
    \/ ClearCache

\* calcUptime over every table of heartbeats.
SpecUptime == InitUptime /\ [][NextUptime]_vars

\* ------------------------------------------------- uptime cache and ticks
\* The windows of sendStats, monitor.js 1374-1375, in hours.
StatsWindows == <<24, 24 * 30>>

\* One execution of Monitor.sendStats, started and not awaited by the tick of
\* heartbeat number tick: w is the window of StatsWindows whose uptime it is
\* computing, seen the number of heartbeats its query reads.
NoStats == [pc |-> "idle", tick |-> 0, w |-> 0, seen |-> 0]

\* The database has one connection (database.js 155-157), which runs the
\* statements in the order they were issued: a query reads the heartbeats
\* whose R.store was issued before it.
storesIssued ==
    Len(heartbeats) + (IF loops[1].pc = "store" THEN 1 ELSE 0)

\* The statements return in the order they were issued. The query of
\* sendAvgPing of tick k is issued before the R.store of heartbeat k; a query
\* of calcUptime that reads seen heartbeats is issued after the R.store of
\* heartbeat seen and before the tick of heartbeat seen + 1.
storeIsNext ==
    /\ loops[1].pc = "store"
    /\ \A k \in DOMAIN stats :
          /\ stats[k].pc # "avgPing"
          /\ stats[k].pc = "query" => stats[k].seen >= loops[1].bean.id

avgPingIsNext(k) ==
    \A j \in DOMAIN stats : stats[j].pc = "query" => stats[j].seen >= k

queryIsNext(k) ==
    /\ loops[1].pc = "store" => loops[1].bean.id > stats[k].seen
    /\ \A j \in DOMAIN stats :
          /\ stats[j].pc = "avgPing" => j > stats[k].seen
          /\ stats[j].pc = "query" => stats[j].seen >= stats[k].seen

\* UptimeCacheList.getUptime: the entry of the window, if any.
getUptime(cache, duration) == {e \in cache : e.duration = duration}

\* UptimeCacheList.addUptime: the entry of the window is set.
addUptime(cache, entry) ==
    {e \in cache : e.duration # entry.duration} \cup {entry}

\* UptimeCacheList.clearCache: the entries of the monitor are dropped.
clearCache(cache) == {}

\* A tick that leaves the cache as it is.
cacheAtEmitKept(cache) == cache

\* beat, monitor.js 1188: the cache of the monitor when the heartbeat is
\* emitted.
cacheAtEmit(cache) == clearCache(cache)

RECURSIVE nextMiss(_, _)
\* sendStats, monitor.js 1374-1375, and calcUptime, 1428-1433: from window w
\* on, the first window that is not in the cache (a cached window is answered
\* at once), or Len(StatsWindows) + 1.
nextMiss(w, cache) ==
    IF w > Len(StatsWindows) THEN w
    ELSE IF getUptime(cache, StatsWindows[w]) # {} THEN nextMiss(w + 1, cache)
    ELSE w

\* calcUptime, monitor.js 1437-1472: execution run goes on with window w: it
\* issues the query of the first window missing in the cache, or ends.
statsContinue(run, w, cache) ==
    LET m == nextMiss(w, cache)
    IN IF m > Len(StatsWindows) THEN [run EXCEPT !.pc = "done", !.w = 0]
       ELSE [run EXCEPT !.pc = "query", !.w = m, !.seen = storesIssued]

\* beat, monitor.js 1134-1193 up to the call of R.store: the beat is
\* classified, the cache cleared, the heartbeat emitted, sendStats started
\* (it gets as far as the query of sendAvgPing when the room has clients) and
\* R.store issued.
TickEmit ==
    /\ loops[1].pc = "timer"
    /\ Len(heartbeats) < MaxCacheBeats
    /\ \E status \in {UP, DOWN}, hasClients \in BOOLEAN :
         LET lp == loops[1]
             k == Len(heartbeats) + 1
             b == classify([NoBean EXCEPT
                              !.id = k, !.status = status,
                              !.first = lp.previousBeat.id = 0,
                              !.prevStatus = lp.previousBeat.status,
                              !.outcome = "probe"])
         IN /\ loops' = [loops EXCEPT ![1] =
                  [lp EXCEPT !.pc = "store",
                             !.bean = afterNotification(b, FALSE)]]
            /\ uptimeCache' = cacheAtEmit(uptimeCache)
            /\ stats' = [stats EXCEPT ![k] =
                  IF hasClients THEN [NoStats EXCEPT !.pc = "avgPing", !.tick = k]
                  ELSE [NoStats EXCEPT !.pc = "done", !.tick = k]]
    /\ UNCHANGED <<monitor, isStop, heartbeatInterval, heartbeats, now, tls, database>>

\* beat, monitor.js 1193-1205: R.store returns and the next tick is scheduled.
TickStored ==
    /\ storeIsNext
    /\ StoreDone(1)
    /\ UNCHANGED <<uptimeCache, stats>>

\* sendStats, monitor.js 1373-1374: sendAvgPing returns and sendUptime calls
\* calcUptime for the first window.
StatsAvgPing(k) ==
    /\ stats[k].pc = "avgPing"
    /\ avgPingIsNext(k)
    /\ stats' = [stats EXCEPT ![k] = statsContinue(stats[k], 1, uptimeCache)]
    /\ UNCHANGED <<monitor, isStop, heartbeatInterval, loops, heartbeats, now,
                   tls, database, uptimeCache>>

\* calcUptime, monitor.js 1441-1496: the query returns, the uptime computed
\* from the heartbeats it read is put into the cache; sendStats goes on with
\* the next window.
StatsQuery(k) ==
    /\ stats[k].pc = "query"
    /\ queryIsNext(k)
    /\ LET run == stats[k]
           cache == addUptime(uptimeCache,
                       [duration |-> StatsWindows[run.w], seen |-> run.seen,
                        epoch |-> storesIssued, by |-> k])
       IN /\ uptimeCache' = cache
          /\ stats' = [stats EXCEPT ![k] = statsContinue(run, run.w + 1, cache)]
    /\ UNCHANGED <<monitor, isStop, heartbeatInterval, loops, heartbeats, now,
                   tls, database>>

InitCache ==
    /\ monitor \in {c \in LifeConfigs :
                      c.type = "http" /\ ~c.upsideDown /\ c.maxretries = 0
                      /\ c.resendInterval = 0}
    /\ isStop = FALSE
    /\ heartbeatInterval = 1
    /\ now = 0
    /\ loops = [l \in Loops |->
                  IF l = 1 THEN [NoLoop EXCEPT !.pc = "timer", !.via = "start"]
                  ELSE NoLoop]
    /\ heartbeats = <<>>
    /\ tls = NoTls
    /\ uptimeCache = {}
    /\ stats = [k \in 1..MaxCacheBeats |-> NoStats]
    /\ database = NoDatabase

NextCache ==
    \/ TickEmit
    \/ TickStored
    \/ \E k \in 1..MaxCacheBeats : StatsAvgPing(k)
    \/ \E k \in 1..MaxCacheBeats : StatsQuery(k)

\* The ticks of one monitor and the statistics they start.
SpecCache == InitCache /\ [][NextCache]_vars

\* ------------------------------------------------------- emit and store
\* Any awaited R.store returns.
storeIsAny(l) == loops[l].pc = "store"

\* beat emits the heartbeat (monitor.js 1189) and calls R.store (1193) in the
\* same run, and the database has one connection (database.js 155-157) that
\* runs the statements in the order they were issued: of the awaited
\* R.store the one of the heartbeat emitted first returns first.
storeIsFirst(l) ==
    /\ loops[l].pc = "store"
    /\ \A k \in Loops :
          loops[k].pc = "store" => loops[k].bean.emitSeq >= loops[l].bean.emitSeq

StoreInOrder(l) ==
    /\ storeIsFirst(l)
    /\ StoreDone(l)

InitOrder ==
    /\ monitor \in {c \in LifeConfigs :
                      c.type = "http" /\ ~c.upsideDown /\ c.maxretries = 0
                      /\ c.resendInterval = 0}
    /\ isStop = FALSE
    /\ heartbeatInterval = 0
    /\ now = 0
    /\ tls = NoTls
    /\ uptimeCache = {}
    /\ stats = <<>>
    /\ database = NoDatabase
    /\ loops = [l \in Loops |-> NoLoop]
    /\ heartbeats = <<>>

NextOrder ==
    \/ Start(MaxOrderBeats)
    \/ Stop
    \/ \E l \in Loops : TimerFire(l, MaxOrderBeats)
    \/ \E l \in Loops : ProbeDone(l)
    \/ \E l \in Loops : NotifyDone(l)
    \/ \E l \in Loops : StoreInOrder(l)

\* The ticks of the loops of one monitor under Start and Stop, the stores
\* returning in the order they were issued.
SpecOrder == InitOrder /\ [][NextOrder]_vars

\* ------------------------------------------------------ maintenance check
\* The monitors of the table, their parent column (0: no parent) and the
\* monitors with a maintenance window that is active. monitor.id is the
\* monitor that ticks; cur and calls of its loop are the argument of the
\* current call of Monitor.isUnderMaintenance and the number of calls made.
Monitors == 1..MaxMonitors
ParentColumns == [Monitors -> Monitors \cup {0}]

\* isUnderMaintenance, monitor.js 1741-1751: a maintenance of the monitor is
\* active.
hasActiveMaintenance(id) == id \in monitor.maintenance

\* getParent, monitor.js 1776-1785: the id of the parent row, 0 for none.
getParent(id) == monitor.parent[id]

\* beat, monitor.js 372-373: the tick calls Monitor.isUnderMaintenance(this.id).
MaintBegin ==
    /\ loops[1].pc = "timer"
    /\ loops' = [loops EXCEPT ![1] =
          [@ EXCEPT !.pc = "maintenance", !.cur = monitor.id, !.calls = 1,
                    !.bean = [NoBean EXCEPT !.first = TRUE]]]
    /\ UNCHANGED <<monitor, isStop, heartbeatInterval, heartbeats, now, tls, database,
                   uptimeCache, stats>>

\* One call of Monitor.isUnderMaintenance, monitor.js 1740-1759: it returns
\* true, calls itself for the parent, or returns false; beat, 373-376, sets
\* the status of a monitor under maintenance and otherwise starts the probe.
MaintCall ==
    /\ loops[1].pc = "maintenance"
    /\ loops[1].calls <= MaxMonitors
    /\ LET lp == loops[1]
       IN loops' = [loops EXCEPT ![1] =
             IF hasActiveMaintenance(lp.cur)
             THEN [lp EXCEPT !.pc = "store",
                             !.bean.status = MAINTENANCE,
                             !.bean.outcome = "maintenance",
                             !.bean.msg = <<"Monitor under maintenance">>]
             ELSE IF getParent(lp.cur) # 0
                  THEN [lp EXCEPT !.cur = getParent(lp.cur), !.calls = @ + 1]
                  ELSE [lp EXCEPT !.pc = "probe"]]
    /\ UNCHANGED <<monitor, isStop, heartbeatInterval, heartbeats, now, tls, database,
                   uptimeCache, stats>>

\* beat, monitor.js 376-1104: the probe of a monitor that is not under
\* maintenance runs and leaves its status.
MaintProbe ==
    /\ loops[1].pc = "probe"
    /\ \E status \in {UP, DOWN} :
         loops' = [loops EXCEPT ![1] =
            [@ EXCEPT !.pc = "store", !.bean.status = status,
                      !.bean.outcome = "probe", !.bean.msg = <<"probe">>]]
    /\ UNCHANGED <<monitor, isStop, heartbeatInterval, heartbeats, now, tls, database,
                   uptimeCache, stats>>

InitMaint ==
    /\ \E id \in Monitors, parent \in ParentColumns, m \in SUBSET Monitors :
          monitor = [type |-> "http", upsideDown |-> FALSE, maxretries |-> 0,
                     resendInterval |-> 0, interval |-> Interval,
                     retryInterval |-> 0, id |-> id, parent |-> parent,
                     maintenance |-> m]
    /\ isStop = FALSE
    /\ heartbeatInterval = 1
    /\ now = 0
    /\ loops = [l \in Loops |->
                  IF l = 1 THEN [NoLoop EXCEPT !.pc = "timer", !.via = "start"]
                  ELSE NoLoop]
    /\ heartbeats = <<>>
    /\ tls = NoTls
    /\ uptimeCache = {}
    /\ stats = <<>>
    /\ database = NoDatabase

NextMaint ==
    \/ MaintBegin
    \/ MaintCall
    \/ MaintProbe

\* The maintenance check of one tick over every parent column.
SpecMaint == InitMaint /\ [][NextMaint]_vars

\* --------------------------------------------------- timeout normalization
\* beat, monitor.js 366-370: the runtime patch of a timeout that is unset
\* (0 here, as both are falsy) or not positive.
patchedTimeout(m) ==
    IF m.timeout = 0 \/ m.timeout <= 0
    THEN (m.interval * 1000 * 8) \div 10
    ELSE m.timeout

\* beat, monitor.js 465-482: the axios options of the http probe, both in
\* milliseconds.
axiosOptions(m) ==
    [timeout |-> m.timeout * 1000, signal |-> (m.timeout + 10) * 1000]

\* beat, monitor.js 366-370.
TimeoutPatch ==
    /\ loops[1].pc = "timer"
    /\ monitor' = [monitor EXCEPT !.timeout = patchedTimeout(monitor)]
    /\ loops' = [loops EXCEPT ![1] = [@ EXCEPT !.pc = "probe"]]
    /\ UNCHANGED <<isStop, heartbeatInterval, heartbeats, now, tls, database,
                   uptimeCache, stats>>

\* beat, monitor.js 465-482.
TimeoutOptions ==
    /\ loops[1].pc = "probe"
    /\ loops' = [loops EXCEPT ![1] =
          [@ EXCEPT !.pc = "request", !.options = axiosOptions(monitor)]]
    /\ UNCHANGED <<monitor, isStop, heartbeatInterval, heartbeats, now, tls, database,
                   uptimeCache, stats>>

InitTimeout ==
    /\ \E interval \in 1..MaxTimeoutInterval, timeout \in (-1)..MaxTimeout :
          monitor = [type |-> "http", upsideDown |-> FALSE, maxretries |-> 0,
                     resendInterval |-> 0, interval |-> interval,
                     retryInterval |-> 0, timeout |-> timeout,
                     configured |-> timeout]
    /\ isStop = FALSE
    /\ heartbeatInterval = 1
    /\ now = 0
    /\ loops = [l \in Loops |->
                  IF l = 1 THEN [NoLoop EXCEPT !.pc = "timer", !.via = "start"]
                  ELSE NoLoop]
    /\ heartbeats = <<>>
    /\ tls = NoTls
    /\ uptimeCache = {}
    /\ stats = <<>>
    /\ database = NoDatabase

NextTimeout ==
    \/ TimeoutPatch
    \/ TimeoutOptions

\* The timeout of one http tick over intervals and configured timeouts.
SpecTimeout == InitTimeout /\ [][NextTimeout]_vars

\* ------------------------------------------------- content-parameter check
\* A JSON value is a record of its kind and what it is made of: the entries
\* [k, v] of an object in key order, the items of an array, nothing for null
\* and for a scalar that is not null (a non-empty string).
JNull == [kind |-> "null", of |-> <<>>]
JStr == [kind |-> "str", of |-> <<>>]
JObj(entries) == [kind |-> "obj", of |-> entries]
JArr(items) == [kind |-> "arr", of |-> items]
\* No value: undefined, and the parseData of a body that was not parsed.
JNone == [kind |-> "undefined", of |-> <<>>]

\* The keys of the responses and String.prototype.toLowerCase on them.
TopKeys == {"content", "reasoningContent", "id", "_allContentFields"}
InnerKeys == {"Content", "value", "id"}
toLowerCase ==
    [k \in TopKeys \cup InnerKeys |->
        CASE k = "reasoningContent" -> "reasoningcontent"
          [] k = "Content" -> "content"
          [] k = "_allContentFields" -> "_allcontentfields"
          [] OTHER -> k]
\* key.toLowerCase().endsWith("content"), monitor.js 610 and 679.
endsWithContent(k) == toLowerCase[k] \in {"content", "reasoningcontent"}
\* The path piece of an array index, monitor.js 604 and 671.
IndexPath == <<"[0]", "[1]", "[2]">>

JLeaves == {JNull, JStr}
JItems ==
    {JObj(<<>>)} \cup {JObj(<<[k |-> k, v |-> v]>>) : k \in InnerKeys, v \in JLeaves}
JArrays ==
    UNION {{JArr(a) : a \in [1..n -> JLeaves \cup JItems]} : n \in 0..MaxArray}
JInner == JLeaves \cup JItems \cup JArrays
\* Objects of up to n entries with distinct keys.
JObjects(n) ==
    UNION {{JObj(es) : es \in {f \in [1..m -> [k : TopKeys, v : JInner]] :
                                 \A i, j \in 1..m : i # j => f[i].k # f[j].k}}
           : m \in 0..n}
\* One data line of an event stream: the [DONE] line, a line that is not
\* JSON, or a JSON value.
FrameDone == [kind |-> "done", of |-> <<>>]
FrameBad == [kind |-> "bad", of |-> <<>>]
Frames == {FrameDone, FrameBad} \cup JLeaves \cup JObjects(1)
\* res.data of an accepted response: a parsed body, a string that is JSON
\* text, an event stream, another string, or the empty string.
Responses ==
    {[type |-> t, json |-> j, frames |-> <<>>] :
        t \in {"object", "json text"}, j \in JObjects(MaxKeys) \cup JArrays \cup JLeaves}
    \cup {[type |-> "sse", json |-> JNone, frames |-> fs] :
            fs \in UNION {[1..n -> Frames] : n \in 1..MaxFrames}}
    \cup {[type |-> t, json |-> JNone, frames |-> <<>>] : t \in {"string", "empty"}}

\* JavaScript truthiness of a value.
truthy(v) == v.kind \notin {"null", "undefined"}
isObject(v) == v.kind \in {"obj", "arr"}

RECURSIVE findFrom(_, _, _)
\* findContentFields and findContentInChunk, monitor.js 597-628 and 661-694,
\* from entry or item i of an object or array on.
findFrom(obj, path, i) ==
    IF i > Len(obj.of) THEN <<>>
    ELSE LET here ==
               IF obj.kind = "arr"
               THEN IF isObject(obj.of[i])
                    THEN findFrom(obj.of[i], path \o <<IndexPath[i]>>, 1)
                    ELSE <<>>
               ELSE LET key == obj.of[i].k
                        val == obj.of[i].v
                    IN (IF endsWithContent(key)
                        THEN <<[key |-> key, path |-> path \o <<key>>,
                                value |-> val]>>
                        ELSE <<>>)
                       \o (IF truthy(val) /\ isObject(val)
                           THEN findFrom(val, path \o <<key>>, 1)
                           ELSE <<>>)
         IN here \o findFrom(obj, path, i + 1)
findContentFields(obj) == IF isObject(obj) THEN findFrom(obj, <<>>, 1) ELSE <<>>

RECURSIVE allContentFields(_, _)
\* monitor.js 583-635: the fields of the data lines that are not the [DONE]
\* line and parse, in line order.
allContentFields(frames, i) ==
    IF i > Len(frames) THEN <<>>
    ELSE (IF frames[i].kind \in {"done", "bad"} THEN <<>>
          ELSE findContentFields(frames[i]))
         \o allContentFields(frames, i + 1)

\* obj[key] of a JSON value.
getKey(obj, key) ==
    IF obj.kind = "obj" /\ \E i \in DOMAIN obj.of : obj.of[i].k = key
    THEN obj.of[CHOOSE i \in DOMAIN obj.of : obj.of[i].k = key].v
    ELSE JNone

\* monitor.js 565-644: parseData; the fields of an event stream travel in
\* an object under the key _allContentFields.
parseDataOf(res) ==
    CASE res.type \in {"object", "json text"} -> res.json
      [] res.type = "sse" ->
            IF allContentFields(res.frames, 1) # <<>>
            THEN [kind |-> "fields", of |-> allContentFields(res.frames, 1)]
            ELSE JNone
      [] OTHER -> JNone

\* monitor.js 649-699: contentFields, read from parseData._allContentFields
\* when that is truthy and found in parseData otherwise.
contentFieldsOf(parseData) ==
    IF parseData.kind = "fields" THEN parseData
    ELSE IF truthy(getKey(parseData, "_allContentFields"))
         THEN getKey(parseData, "_allContentFields")
         ELSE [kind |-> "fields", of |-> findContentFields(parseData)]

\* field.value of an element of contentFields, monitor.js 704-705.
fieldValue(f) == IF "value" \in DOMAIN f THEN f.value ELSE getKey(f, "value")
fieldPath(f) == IF "path" \in DOMAIN f THEN f.path ELSE <<>>
\* contentFields.map(f => f.path).join(", "), monitor.js 701 and 719.
RECURSIVE joinPaths(_, _)
joinPaths(fields, i) ==
    IF i > Len(fields) THEN <<>>
    ELSE fieldPath(fields[i])
         \o (IF i < Len(fields) THEN <<", ">> ELSE <<>>)
         \o joinPaths(fields, i + 1)

\* monitor.js 560-644.
ContentParse ==
    /\ loops[1].pc = "probe"
    /\ loops' = [loops EXCEPT ![1] =
          [@ EXCEPT !.pc = "parsed",
                    !.bean.status = UP,
                    !.parseData = IF loops[1].res.type = "empty" THEN JNone
                                  ELSE parseDataOf(loops[1].res)]]
    /\ UNCHANGED <<monitor, isStop, heartbeatInterval, heartbeats, now, tls, database,
                   uptimeCache, stats>>

\* monitor.js 646-731: the check of the content fields. It ends the probe
\* with the status UP, or throws: the error of the check with the status
\* DOWN, or a TypeError of a contentFields that is no array of objects (a
\* null element read in 704, a map that is no function in 701).
ContentCheck ==
    /\ loops[1].pc = "parsed"
    /\ LET pd == loops[1].parseData
           cf == contentFieldsOf(pd)
           fields == cf.of
           typeError ==
              \/ cf.kind \notin {"fields", "arr"}
              \/ \E i \in DOMAIN fields :
                    "value" \notin DOMAIN fields[i] /\ fields[i].kind = "null"
           allNull ==
              /\ Len(fields) > 0
              /\ \A i \in DOMAIN fields : fieldValue(fields[i]) = JNull
       IN loops' = [loops EXCEPT ![1] =
             IF ~truthy(pd) THEN [@ EXCEPT !.pc = "done"]
             ELSE IF typeError
                  THEN [@ EXCEPT !.pc = "catch", !.bean.msg = <<"TypeError">>]
                  ELSE IF allNull
                       THEN [@ EXCEPT !.pc = "catch",
                                      !.bean.status = DOWN,
                                      !.bean.msg =
                                         <<"all content parameters are null">>
                                         \o joinPaths(fields, 1)]
                       ELSE [@ EXCEPT !.pc = "done"]]
    /\ UNCHANGED <<monitor, isStop, heartbeatInterval, heartbeats, now, tls, database,
                   uptimeCache, stats>>

InitContent ==
    /\ monitor = [type |-> "http", upsideDown |-> FALSE, maxretries |-> 0,
                  resendInterval |-> 0, interval |-> Interval,
                  retryInterval |-> 0, checkContentParameter |-> TRUE]
    /\ isStop = FALSE
    /\ heartbeatInterval = 1
    /\ now = 0
    /\ \E res \in Responses :
         loops = [l \in Loops |->
                   IF l = 1
                   THEN [NoLoop EXCEPT !.pc = "probe", !.via = "start",
                                       !.res = res,
                                       !.bean = [NoBean EXCEPT !.first = TRUE]]
                   ELSE NoLoop]
    /\ heartbeats = <<>>
    /\ tls = NoTls
    /\ uptimeCache = {}
    /\ stats = <<>>
    /\ database = NoDatabase

NextContent ==
    \/ ContentParse
    \/ ContentCheck

\* The content-parameter check of one accepted response of an http monitor.
SpecContent == InitContent /\ [][NextContent]_vars

\* -------------------------------------------------------- database patches
\* Database.patchList, database.js 43-90: the files in the order of the
\* list, each with the array of its parents (empty for the value true).
PatchFiles == 1..MaxPatches
ParentArrays(f) ==
    {a \in UNION {[1..n -> PatchFiles \ {f}] : n \in 0..(MaxPatches - 1)} :
        \A i, j \in DOMAIN a : i # j => a[i] # a[j]}
PatchLists ==
    {pl \in [PatchFiles -> UNION {ParentArrays(f) : f \in PatchFiles}] :
        /\ \A f \in PatchFiles : pl[f] \in ParentArrays(f)
        /\ \E rank \in [PatchFiles -> PatchFiles] :
              \A f \in PatchFiles : \A i \in DOMAIN pl[f] :
                  rank[pl[f][i]] < rank[f]}

\* The databasePatchedFiles settings an earlier version can have left: every
\* file in it has its parents in it.
PatchedSettings(pl) ==
    {st \in SUBSET PatchFiles :
        \A f \in st : \A i \in DOMAIN pl[f] : pl[f][i] \in st}

\* The state of the database and of the patch process: the setting
\* databasePatchedFiles as stored, the object patch2 works on, the index of
\* its for loop, the calls of patch2Recursion that have not returned (file
\* and number of parents done), the files imported so far in the life of
\* the database, and the runs and failures counted.
\* Database.patch2, database.js 249-258: the setting is read.
PatchStart ==
    /\ database.pc = "start"
    /\ database' = [database EXCEPT !.pc = "loop",
                                    !.databasePatchedFiles = database.setting,
                                    !.i = 1, !.stack = <<>>,
                                    !.runs = @ + 1]
    /\ UNCHANGED <<monitor, isStop, heartbeatInterval, loops, heartbeats, now,
                   tls, uptimeCache, stats>>

\* database.js 260-262 and 358-367: the for loop calls patch2Recursion for
\* the next file of the list; a file that is patched returns at once.
PatchLoop ==
    /\ database.pc = "loop"
    /\ database.stack = <<>>
    /\ database.i <= MaxPatches
    /\ database' =
          [database EXCEPT
             !.i = @ + 1,
             !.stack = IF database.i \in database.databasePatchedFiles
                       THEN <<>>
                       ELSE <<[file |-> database.i, k |-> 0]>>]
    /\ UNCHANGED <<monitor, isStop, heartbeatInterval, loops, heartbeats, now,
                   tls, uptimeCache, stats>>

\* database.js 370-375: the call for the next parent of the file on top.
PatchParent ==
    /\ database.pc = "loop"
    /\ database.stack # <<>>
    /\ LET n == Len(database.stack)
           top == database.stack[n]
           parents == database.patchList[top.file]
       IN /\ top.k < Len(parents)
          /\ LET q == parents[top.k + 1]
                 rest == [database.stack EXCEPT ![n].k = @ + 1]
             IN database' =
                  [database EXCEPT
                     !.stack = IF q \in database.databasePatchedFiles
                               THEN rest
                               ELSE Append(rest, [file |-> q, k |-> 0])]
    /\ UNCHANGED <<monitor, isStop, heartbeatInterval, loops, heartbeats, now,
                   tls, uptimeCache, stats>>

\* database.js 377-381: importSQLFile of the file on top succeeds.
PatchImport ==
    /\ database.pc = "loop"
    /\ database.stack # <<>>
    /\ LET n == Len(database.stack)
           top == database.stack[n]
       IN /\ top.k = Len(database.patchList[top.file])
          /\ database' =
                [database EXCEPT
                   !.executed = Append(@, top.file),
                   !.databasePatchedFiles = @ \cup {top.file},
                   !.stack = SubSeq(database.stack, 1, n - 1)]
    /\ UNCHANGED <<monitor, isStop, heartbeatInterval, loops, heartbeats, now,
                   tls, uptimeCache, stats>>

\* database.js 379 and 268-276: importSQLFile of the file on top throws;
\* patch2 closes the database and the process exits.
PatchImportFails ==
    /\ database.pc = "loop"
    /\ database.stack # <<>>
    /\ database.fails < MaxPatchFails
    /\ LET n == Len(database.stack)
           top == database.stack[n]
       IN /\ top.k = Len(database.patchList[top.file])
          /\ database' = [database EXCEPT !.pc = "exit", !.stack = <<>>,
                                          !.fails = @ + 1]
    /\ UNCHANGED <<monitor, isStop, heartbeatInterval, loops, heartbeats, now,
                   tls, uptimeCache, stats>>

\* database.js 260-266 and 279: after the loop the setting is stored.
PatchSave ==
    /\ database.pc = "loop"
    /\ database.stack = <<>>
    /\ database.i > MaxPatches
    /\ database' = [database EXCEPT
                      !.pc = "done",
                      !.setting = database.databasePatchedFiles]
    /\ UNCHANGED <<monitor, isStop, heartbeatInterval, loops, heartbeats, now,
                   tls, uptimeCache, stats>>

\* The server is started again on the same database.
PatchRestart ==
    /\ database.pc \in {"exit", "done"}
    /\ database.runs < MaxPatchRuns
    /\ database' = [database EXCEPT !.pc = "start"]
    /\ UNCHANGED <<monitor, isStop, heartbeatInterval, loops, heartbeats, now,
                   tls, uptimeCache, stats>>

InitPatch ==
    /\ monitor = [type |-> "http", upsideDown |-> FALSE, maxretries |-> 0,
                  resendInterval |-> 0, interval |-> Interval,
                  retryInterval |-> 0]
    /\ isStop = FALSE
    /\ heartbeatInterval = 0
    /\ now = 0
    /\ loops = [l \in Loops |-> NoLoop]
    /\ heartbeats = <<>>
    /\ tls = NoTls
    /\ uptimeCache = {}
    /\ stats = <<>>
    /\ \E pl \in PatchLists : \E st \in PatchedSettings(pl) :
         database = [pc |-> "start", patchList |-> pl, base |-> st,
                     setting |-> st, databasePatchedFiles |-> {},
                     i |-> 0, stack |-> <<>>, executed |-> <<>>,
                     runs |-> 0, fails |-> 0]

NextPatch ==
    \/ PatchStart
    \/ PatchLoop
    \/ PatchParent
    \/ PatchImport
    \/ PatchImportFails
    \/ PatchSave
    \/ PatchRestart

\* The runs of patch2 on one database.
SpecPatch == InitPatch /\ [][NextPatch]_vars

TypeOK ==
    /\ monitor \in Configs \cup LifeConfigs \cup SchedConfigs \cup TimeConfigs
    /\ isStop \in BOOLEAN
    /\ heartbeatInterval \in 0..MaxStarts
    /\ \A l \in Loops : loops[l].pc \in Live \cup {"none", "dead"}
    /\ Len(heartbeats) <= MaxBeats

\* ------------------------------------------------------------------ claims
Rows == {heartbeats[i] : i \in DOMAIN heartbeats}

\* The heartbeats produced by ticks of the runtime (not posted by an agent).
Beats == {r \in Rows : r.outcome # "api"}

NoApi == \A r \in Rows : r.outcome # "api"

Min(a, b) == IF a < b THEN a ELSE b

StatusSeq == [i \in DOMAIN heartbeats |-> heartbeats[i].status]
ImportantSeq == [i \in DOMAIN heartbeats |-> heartbeats[i].important]
NotifiedSeq == [i \in DOMAIN heartbeats |-> heartbeats[i].sent # <<>>]

\* The tick of row r ran the pre-command with the beat's status and then
\* contacted every provider of the monitor.
Dispatched(r) ==
    /\ Len(r.sent) = 1 + NumProviders
    /\ r.sent[1] = [kind |-> "preCommand", arg |-> r.status]
    /\ \A p \in Providers :
         \E i \in 2..Len(r.sent) : r.sent[i] = [kind |-> "send", arg |-> p]

\* The transitions the spec lists as important-for-notify.
NotifyCase(r) ==
    \/ r.first
    \/ <<r.prevStatus, r.status>> \in
         {<<UP, DOWN>>, <<DOWN, UP>>, <<PENDING, DOWN>>, <<MAINTENANCE, DOWN>>}

FlapScenario ==
    /\ monitor.maxretries = 2
    /\ ~monitor.upsideDown
    /\ Len(heartbeats) = 4
    /\ \A i \in 1..3 : heartbeats[i].outcome \in Thrown
    /\ heartbeats[4].outcome = "up"

C2_StartIdempotent ==
    Cardinality({l \in Loops : loops[l].pc \in Live /\ ~loops[l].stopSeen}) <= 1

\* C3 (as claimed): once Stop has been called, no tick of a runtime that
\* existed at that moment begins.
C3_StopCancelsPendingTick ==
    \A l \in Loops : ~loops[l].tickAfterStop

\* C4 (as claimed): a tick that was in flight when Stop was called stores no
\* heartbeat, emits no heartbeat and dispatches no notification afterwards.
C4_StopCancelsInFlight ==
    \A r \in Rows :
        ~r.storeAfterStop /\ ~r.emitAfterStop /\ ~r.sentAfterStop

\* C5 (as claimed): a runtime started after a Stop keeps ticking: a beat
\* loop ends only when Stop is called after the Start that created it.
C5_ReloadKeepsRunning ==
    \A l \in Loops : loops[l].pc = "dead" => loops[l].stopSeen

\* C6 (as claimed): at most one tick of the monitor is in flight.
C6_TicksSerialized == InFlightCount <= 1

\* C7 (as claimed): every important-for-notify beat, the first beat with
\* any status included, runs the pre-command and then the notifications.
C7_EveryNotifyBeatDispatches ==
    \A r \in Beats : NotifyCase(r) => Dispatched(r)

\* C7 (amended): an important-for-notify beat that is not the monitor's
\* first beat, or whose status is DOWN, runs the pre-command with the beat's
\* status and then the notifications; a first beat with another status
\* dispatches nothing.
C7_NotifyBeatDispatches ==
    \A r \in Beats :
        /\ (NotifyCase(r) /\ (~r.first \/ r.status = DOWN)) => Dispatched(r)
        /\ (r.first /\ r.status # DOWN) => r.sent = <<>>

C7_Witness ==
    /\ \E r \in Beats : r.first /\ r.status = UP /\ r.sent = <<>>
    /\ \E r \in Beats : ~r.first /\ r.prevStatus = MAINTENANCE
                        /\ r.status = DOWN /\ Dispatched(r)
    /\ \E r \in Beats : r.prevStatus = DOWN /\ r.status = UP /\ Dispatched(r)

\* C8: no beat with status MAINTENANCE or PENDING dispatches a
\* notification, a MAINTENANCE -> UP beat is important and dispatches none,
\* and a MAINTENANCE -> DOWN beat dispatches the notifications.
C8_MaintenanceNotify ==
    \A r \in Beats :
        /\ r.status \in {MAINTENANCE, PENDING} => r.sent = <<>>
        /\ (r.prevStatus = MAINTENANCE /\ r.status = UP) =>
               (r.important /\ r.sent = <<>>)
        /\ (r.prevStatus = MAINTENANCE /\ r.status = DOWN) => Dispatched(r)

C8_Witness ==
    /\ \E r \in Beats : r.first /\ r.status \in {MAINTENANCE, PENDING}
    /\ \E r \in Beats : r.prevStatus = MAINTENANCE /\ r.status = UP
    /\ \E r \in Beats : r.prevStatus = MAINTENANCE /\ r.status = DOWN

\* Position of heartbeat i in its run of consecutive DOWN heartbeats: 0 for
\* the beat that starts the run.
RECURSIVE RunPos(_)
RunPos(i) ==
    IF i = 1 \/ heartbeats[i - 1].status # DOWN THEN 0 ELSE 1 + RunPos(i - 1)

ResendScenario ==
    /\ monitor.resendInterval = 3
    /\ Len(heartbeats) = 5
    /\ \A i \in 1..5 : heartbeats[i].status = DOWN /\ heartbeats[i].outcome # "api"

\* C9: with resendInterval = R > 0, in a run of consecutive DOWN beats of
\* one runtime the notifications are dispatched on the beat that starts the
\* run and on every R-th DOWN beat after it, and on no other beat of the run;
\* for R = 3 and five DOWN beats of a new monitor they fire on beats 1 and 4.
C9_ResendWhileDown ==
    /\ (monitor.resendInterval > 0 /\ NoApi) =>
         \A i \in DOMAIN heartbeats :
            heartbeats[i].status = DOWN =>
               /\ RunPos(i) = 0 => heartbeats[i].important
               /\ RunPos(i) > 0 => ~heartbeats[i].important
               /\ (heartbeats[i].sent # <<>>) <=>
                     (RunPos(i) % monitor.resendInterval = 0)
               /\ heartbeats[i].sent # <<>> => Dispatched(heartbeats[i])
    /\ ResendScenario =>
         NotifiedSeq = <<TRUE, FALSE, FALSE, TRUE, FALSE>>

C9_Witness == ResendScenario

\* C10: downCount never exceeds resendInterval, in a stored heartbeat or in
\* the bean of a tick in flight, and every important heartbeat stores
\* downCount 0.
C10_DownCountBound ==
    /\ \A r \in Rows :
         /\ r.downCount <= monitor.resendInterval
         /\ r.important => r.downCount = 0
    /\ \A l \in Loops : loops[l].bean.downCount <= monitor.resendInterval

C10_Witness ==
    /\ monitor.resendInterval >= 2
    /\ \E r \in Beats : r.downCount = monitor.resendInterval - 1
    /\ \E r \in Beats : ~r.important /\ r.sent # <<>> /\ r.downCount = 0
    /\ \E r \in Beats : ~r.first /\ r.important /\ r.prevStatus = PENDING

C12_MaintenanceKeepsRetries ==
    \A r \in Beats : r.status = MAINTENANCE => r.retries = r.retriesBefore

\* The probe of row r's tick failed: the driver threw, or it reported DOWN
\* (content parameters all null, grpc-keyword code or keyword mismatch).
ProbeFailed(r) == r.outcome \in Thrown \cup {"down"}

\* C13: every failure of a probe goes through the retry accounting, read
\* for monitors that are not upside down: the beat is PENDING with retries
\* incremented while retries < maxretries, and DOWN only once retries has
\* reached maxretries.
C13_FailureIsRetried ==
    \A r \in Beats :
        (ProbeFailed(r) /\ ~monitor.upsideDown) =>
            IF r.retriesBefore < monitor.maxretries
            THEN r.status = PENDING /\ r.retries = r.retriesBefore + 1
            ELSE r.status = DOWN /\ r.retries = r.retriesBefore

\* The parts of the msg of row r.
MsgParts(r) == {r.msg[i] : i \in DOMAIN r.msg}

\* C14: under upsideDown a probe that succeeds with UP is accounted as a
\* probe error (PENDING while retries remain, DOWN when none remain), its
\* msg holds the probe's UP message and the inversion marker, and the beat is
\* classified by the status DOWN; a probe that raises an error gives an UP
\* beat with retries 0.
C14_UpsideDownScenario ==
    \A r \in Beats :
        monitor.upsideDown =>
            /\ r.outcome = "up" =>
                 /\ r.status = (IF r.retriesBefore < monitor.maxretries
                                THEN PENDING ELSE DOWN)
                 /\ {"probe", "Flip UP to DOWN"} \subseteq MsgParts(r)
                 /\ r.important = isImportantBeat(r.first, r.prevStatus, r.status)
            /\ r.outcome \in Thrown => r.status = UP /\ r.retries = 0

\* C15: upsideDown exchanges only UP and DOWN: a maintenance beat is
\* MAINTENANCE and a beat whose probe returned PENDING is PENDING, whether
\* upsideDown is set or not.
C15_FlipOnlyUpDown ==
    \A r \in Beats :
        /\ r.outcome = "maintenance" => r.status = MAINTENANCE
        /\ r.outcome = "pending" => r.status = PENDING

C15_Witness ==
    /\ monitor.upsideDown
    /\ monitor.maxretries > 0
    /\ \E r \in Beats : r.outcome = "maintenance" /\ r.retriesBefore > 0
    /\ \E r \in Beats : r.outcome = "pending"

\* Loop l ends a tick in this step: by storing its heartbeat ("store"), by
\* the reschedule of the push probe ("push") or in safeBeat's catch ("catch").
TickEnds(l, how) ==
    /\ loops[l].pc \in InFlight
    /\ loops'[l].pc \notin InFlight
    /\ loops'[l].via = how

\* The delay the spec gives for the tick after a beat of status s, in ms.
SpecDelay(s) ==
    IF s = PENDING /\ monitor.retryInterval > 0
    THEN monitor.retryInterval * 1000
    ELSE beatInterval * 1000

\* C16 as stated: every tick that completes while isStop is not set arms
\* exactly one timer, with the retry interval after a PENDING beat when
\* retryInterval > 0 and the beat interval otherwise; when isStop is set no
\* timer is armed.
C16_EveryTickSchedulesNext ==
    [][\A l \in Loops :
         (TickEnds(l, "store") \/ TickEnds(l, "push")) =>
             IF isStop
             THEN loops'[l].pc = "dead"
             ELSE /\ loops'[l].pc = "timer"
                  /\ heartbeatInterval' = l
                  /\ loops'[l].delay =
                       SpecDelay(IF loops'[l].via = "store"
                                 THEN heartbeats'[Len(heartbeats')].status
                                 ELSE Undefined)]_vars

\* C16, amended: the same for every tick that stores a heartbeat.
C16_StoringTickSchedulesNext ==
    [][\A l \in Loops :
         TickEnds(l, "store") =>
             /\ Len(heartbeats') = Len(heartbeats) + 1
             /\ IF isStop
                THEN loops'[l].pc = "dead"
                ELSE /\ loops'[l].pc = "timer"
                     /\ heartbeatInterval' = l
                     /\ loops'[l].delay =
                          SpecDelay(heartbeats'[Len(heartbeats')].status)]_vars

C16_Witness ==
    /\ monitor.retryInterval > 0
    /\ ~isStop
    /\ loops[1].pc = "timer" /\ loops[1].via = "store"
    /\ heartbeats # <<>>
    /\ heartbeats[Len(heartbeats)].status = PENDING
    /\ heartbeats[Len(heartbeats)].loop = 1
    /\ loops[1].delay = monitor.retryInterval * 1000
    /\ loops[1].delay # beatInterval * 1000

\* C18: an exception that escapes a tick, a failure of R.store included, is
\* caught by safeBeat: no heartbeat is stored, and the next tick is armed
\* after interval seconds unless the monitor is stopped.
C18_ExceptionReschedules ==
    [][\A l \in Loops :
         TickEnds(l, "catch") =>
             /\ heartbeats' = heartbeats
             /\ IF isStop
                THEN loops'[l].pc = "dead"
                ELSE /\ loops'[l].pc = "timer"
                     /\ heartbeatInterval' = l
                     /\ loops'[l].delay = monitor.interval * 1000]_vars

C18_Witness ==
    /\ ~isStop
    /\ loops[1].pc = "timer" /\ loops[1].via = "catch"
    /\ loops[1].failed > 0
    /\ loops[1].delay = monitor.interval * 1000
    /\ monitor.retryInterval > 0
    /\ heartbeats # <<>>

\* The probe of a push monitor runs in this step of loop l (the monitor is
\* not under maintenance and no exception escapes the tick).
PushProbeRuns(l) ==
    /\ monitor.type = "push"
    /\ loops[l].pc = "probe"
    /\ loops'[l].pc # "probe"
    /\ loops'[l].via # "catch"
    /\ loops'[l].bean.outcome # "maintenance"

\* The heartbeat the tick of loop l loaded is in the good state and not older
\* than beatInterval + 1 s.
GoodInWindow(l) ==
    /\ loops[l].previousBeat.status = (IF monitor.upsideDown THEN DOWN ELSE UP)
    /\ loops'[l].ms <= beatInterval * 1000 + 1000

\* The push probe of loop l stores and emits nothing, resets retries and arms
\* the next tick after d ms.
PushReschedules(l, d) ==
    /\ heartbeats' = heartbeats
    /\ loops'[l].bean = NoBean
    /\ loops'[l].retries = 0
    /\ loops'[l].pc = "timer"
    /\ heartbeatInterval' = l
    /\ loops'[l].delay = d

\* The push probe of loop l raises "No heartbeat in the time window" and the
\* beat takes its status from the retry accounting.
PushRaises(l) ==
    /\ loops'[l].pc \in {"notify", "store"}
    /\ loops'[l].bean.msg = <<"No heartbeat in the time window">>
    /\ IF monitor.upsideDown
       THEN loops'[l].bean.status = UP /\ loops'[l].retries = 0
       ELSE IF loops[l].retries < monitor.maxretries
            THEN /\ loops'[l].bean.status = PENDING
                 /\ loops'[l].retries = loops[l].retries + 1
            ELSE /\ loops'[l].bean.status = DOWN
                 /\ loops'[l].retries = loops[l].retries

\* C19 as stated: when the latest heartbeat is good and inside
\* beatInterval + 1 s the push probe stores and emits nothing, resets retries
\* and arms the next tick after the time left to the deadline plus the 1 s
\* buffer; otherwise it raises and the retry accounting decides.
C19_PushWindowRemaining ==
    [][\A l \in Loops :
         PushProbeRuns(l) =>
             IF GoodInWindow(l)
             THEN PushReschedules(l, beatInterval * 1000 - loops'[l].ms + 1000)
             ELSE PushRaises(l)]_vars

\* C19, amended: the same, with the next tick armed after the 1 s buffer
\* alone once the deadline has passed.
C19_PushWindow ==
    [][\A l \in Loops :
         PushProbeRuns(l) =>
             IF GoodInWindow(l)
             THEN PushReschedules(l,
                    IF loops'[l].ms > beatInterval * 1000
                    THEN 1000
                    ELSE beatInterval * 1000 - loops'[l].ms + 1000)
             ELSE PushRaises(l)]_vars

C19_Witness ==
    /\ monitor.type = "push"
    /\ loops[1].pc = "timer" /\ loops[1].via = "push"
    /\ loops[1].ms > beatInterval * 1000
    /\ loops[1].delay = 1000
    /\ \E r \in Beats : r.msg = <<"No heartbeat in the time window">>

\* No two stored heartbeats were composed in the same millisecond.
DistinctTimes ==
    \A i, j \in DOMAIN heartbeats :
        i # j => heartbeats[i].time # heartbeats[j].time

\* C17: for a monitor that is not fed through the push API and whose
\* heartbeats were composed at distinct milliseconds, the stored heartbeats
\* have strictly increasing time in the order they were stored, the first
\* has duration 0 and every later one has the whole seconds between its time
\* and the time of the heartbeat stored immediately before it.
C17_TimeAndDuration ==
    (monitor.type # "push" /\ DistinctTimes) =>
        \A i \in DOMAIN heartbeats :
            IF i = 1
            THEN heartbeats[i].duration = 0
            ELSE /\ heartbeats[i].time > heartbeats[i - 1].time
                 /\ heartbeats[i].duration =
                      (heartbeats[i].time - heartbeats[i - 1].time) \div 1000

\* The notification rounds sent for notify day d while the stored fingerprint
\* was in its e-th state.
RoundsSent(d, e) ==
    Cardinality({k \in DOMAIN tls.rounds :
                    tls.rounds[k].days = d /\ tls.rounds[k].epoch = e})

\* C20: between two changes of the leaf's fingerprint256 at most one
\* notification round is sent per notify day, whatever the interleaving of
\* the executions of handleTlsInfo.
C20_OneRoundPerThreshold ==
    \A i \in DOMAIN TlsNotifyDays :
        \A e \in 0..MaxTlsStarts : RoundsSent(TlsNotifyDays[i], e) <= 1

\* The sequential execution of handleTlsInfo and its certificate.
SeqRun == tls.runs[1]
LeafOnly(d) == SeqRun.chain = <<[days |-> d, root |-> FALSE]>>
NoSendFailed == SeqRun.tried = SeqRun.sentFor

\* C21 as stated: with the notify days 7, 14, 21 and a leaf certificate with
\* 10 days remaining, the first probe sends a notification for 21 and one for
\* 14 and records a row for each of them.
C21_BothMetThresholds ==
    (SeqRun.pc = "done" /\ tls.starts = 1 /\ LeafOnly(10)
     /\ expiryChecked(SeqRun) /\ NoSendFailed)
        => (SeqRun.sentFor = {14, 21} /\ tls.history = {14, 21})

\* C21: with the notify days 7, 14, 21 and a leaf certificate with 10 days
\* remaining, the first probe sends one notification, for 14, and records the
\* row of 14, none for 7 and none for 21; a second probe with the same
\* fingerprint finds that row and sends nothing.
C21_SmallestMetThreshold ==
    /\ (SeqRun.pc = "done" /\ tls.starts = 1 /\ LeafOnly(10)
        /\ expiryChecked(SeqRun) /\ NoSendFailed)
           => (SeqRun.sentFor = {14} /\ tls.history = {14})
    /\ (SeqRun.pc = "done" /\ tls.starts = 2 /\ LeafOnly(10)
        /\ SeqRun.old = SeqRun.fp /\ SeqRun.before = {14})
           => (SeqRun.tried = {} /\ tls.history = {14})

C21_Witness ==
    /\ SeqRun.pc = "done" /\ tls.starts = 2 /\ LeafOnly(10)
    /\ expiryChecked(SeqRun)
    /\ SeqRun.old = SeqRun.fp /\ SeqRun.before = {14}
    /\ Len(tls.rounds) = 1 /\ tls.rounds[1].days = 14

\* The certificates of the chain below a known root, and the notify days met
\* by one of them.
CertsBelowRoot(chain) ==
    {j \in 1..Len(chain) : \A k \in 1..j : ~chain[k].root}
MetDays(chain) ==
    {TlsNotifyDays[i] : i \in
        {i \in 1..Len(TlsNotifyDays) :
            \E j \in CertsBelowRoot(chain) : chain[j].days <= TlsNotifyDays[i]}}
Rotated == SeqRun.old # "none" /\ SeqRun.old # SeqRun.fp
PastUpdate == SeqRun.pc \in {"check", "send", "insert", "done"}

\* C22: a probe whose leaf fingerprint256 differs from the stored one deletes
\* the certificate rows of the sent history before the thresholds are
\* evaluated, and when notifications are enabled and no send fails it
\* notifies again for every met threshold (by a notification for that notify
\* day or for a smaller one, whose row answers the days <= t lookup); a probe
\* with the stored fingerprint deletes no row.
C22_RotationNotifiesAgain ==
    /\ (PastUpdate /\ Rotated) => (SeqRun.deleted /\ SeqRun.before = {})
    /\ (SeqRun.pc = "done" /\ Rotated /\ NoSendFailed
        /\ (~tls.ignoreTls) /\ tls.expiryNotification)
          => \A t \in MetDays(SeqRun.chain) : sentAlready(SeqRun.sentFor, t)
    /\ (PastUpdate /\ ~Rotated)
          => (~SeqRun.deleted /\ SeqRun.before \subseteq tls.history)

\* C23: with ignoreTls false, expiryNotification true and a provider, for
\* every certificate of the chain below a known root and every notify day t,
\* if daysRemaining <= t (0 included) and no row with days <= t exists when t
\* is evaluated, a notification goes out for t and the row of t is inserted;
\* with ignoreTls true or expiryNotification false nothing is sent and no row
\* is inserted.
C23_EveryMetThresholdNotified ==
    /\ (SeqRun.pc = "done" /\ NoSendFailed
        /\ (~tls.ignoreTls) /\ tls.expiryNotification)
          => \A t \in MetDays(SeqRun.chain) :
                ~sentAlready(SeqRun.before
                               \cup {d \in SeqRun.sentFor : d < t}, t)
                   => (t \in SeqRun.sentFor /\ t \in tls.history)
    /\ (PastUpdate /\ (tls.ignoreTls \/ ~tls.expiryNotification))
          => (SeqRun.tried = {} /\ tls.history = SeqRun.before)

\* The active children of a group beat and the rearrangements of its children.
ActiveOf(children) == {i \in DOMAIN children : children[i].active}
Rearranged(children) ==
    {[i \in DOMAIN children |-> children[f[i]]] :
        f \in {g \in [DOMAIN children -> DOMAIN children] :
                 \A i, j \in DOMAIN children : g[i] = g[j] => i = j}}

\* C24: a group beat is UP only if the latest heartbeat of every active child
\* is UP; with the children UP, PENDING, UP it is PENDING with the message
\* "Child inaccessible"; with all active children UP it is UP with the message
\* "All children up and running".
C24_GroupUpOnlyIfAllUp ==
    \A r \in Rows :
       LET act == ActiveOf(r.children)
       IN /\ r.status = UP => \A i \in act : r.children[i].last = UP
          /\ r.children = <<[active |-> TRUE, last |-> UP],
                            [active |-> TRUE, last |-> PENDING],
                            [active |-> TRUE, last |-> UP]>>
                => (r.status = PENDING /\ r.msg = "Child inaccessible")
          /\ (act # {} /\ \A i \in act : r.children[i].last = UP)
                => (r.status = UP /\ r.msg = "All children up and running")

\* C25: a group beat is DOWN when the latest heartbeat of an active child is
\* DOWN, whatever the other children are (UP, PENDING, without heartbeat), and
\* the aggregate is the same for every order of the children.
C25_GroupDownAnyOrder ==
    \A r \in Rows :
       /\ (\E i \in ActiveOf(r.children) : r.children[i].last = DOWN)
             => r.status = DOWN
       /\ \A cs \in Rearranged(r.children) : groupStatus(cs) = r.status

\* The classified beats and the transitions of a beat that is not the first.
Classified == {r \in Rows : r.outcome = "classified"}
Transition(r) == <<r.prevStatus, r.status>>

\* C26: isImportantBeat is true exactly for a first beat and for the
\* transitions UP -> DOWN, DOWN -> UP, PENDING -> DOWN, UP -> MAINTENANCE,
\* DOWN -> MAINTENANCE, MAINTENANCE -> UP and MAINTENANCE -> DOWN.
C26_ImportantBeatTable ==
    \A r \in Classified :
       r.important <=>
          (r.first \/ Transition(r) \in
              {<<UP, DOWN>>, <<DOWN, UP>>, <<PENDING, DOWN>>,
               <<UP, MAINTENANCE>>, <<DOWN, MAINTENANCE>>,
               <<MAINTENANCE, UP>>, <<MAINTENANCE, DOWN>>})

C26_Witness ==
    \E r \in Classified :
       /\ ~r.first /\ Transition(r) = <<PENDING, DOWN>> /\ r.important

\* C27: isImportantForNotification is true exactly for a first beat and for
\* UP -> DOWN, DOWN -> UP, PENDING -> DOWN and MAINTENANCE -> DOWN; a beat
\* important for notification is important, and an important beat is important
\* for notification unless its previous or current status is MAINTENANCE.
C27_NotifyWithinImportant ==
    \A r \in Classified :
       /\ r.importantForNotification <=>
             (r.first \/ Transition(r) \in
                 {<<UP, DOWN>>, <<DOWN, UP>>, <<PENDING, DOWN>>,
                  <<MAINTENANCE, DOWN>>})
       /\ r.importantForNotification => r.important
       /\ r.important =>
             (r.importantForNotification \/ r.prevStatus = MAINTENANCE
              \/ r.status = MAINTENANCE)

C27_Witness ==
    \E r \in Classified :
       /\ ~r.first /\ Transition(r) = <<MAINTENANCE, UP>>
       /\ r.important /\ ~r.importantForNotification

\* The dispatch log of the bean of the tick and of the stored heartbeats.
DispatchLogs == {loops[1].bean.sent} \cup {r.sent : r \in Rows}
PreCommands(log) == {i \in DOMAIN log : log[i].kind = "preCommand"}
SendsTo(log, p) == {i \in DOMAIN log : log[i].kind = "send" /\ log[i].arg = p}

\* C28: in a dispatch the pre-command is invoked once and before any provider;
\* when it fails the providers are still contacted; when a provider fails
\* every remaining provider is still contacted and the tick is not aborted:
\* the heartbeat is emitted and stored.
C28_DispatchSurvivesFailures ==
    /\ \A log \in DispatchLogs :
          log # <<>> => PreCommands(log) = {1}
    /\ \A r \in Rows :
          /\ Len(r.sent) = 1 + NotifyProviders
          /\ \A p \in 1..NotifyProviders : SendsTo(r.sent, p) = {p + 1}
          /\ r.emitted
    /\ (loops[1].pc = "store" \/ loops[1].via = "store")
          => /\ loops[1].via = "store" => Len(heartbeats) = 1
             /\ loops[1].pc = "store"
                   => Len(loops[1].bean.sent) = 1 + NotifyProviders
    /\ loops[1].via = "catch"
          => \A i \in DOMAIN loops[1].bean.sent :
                loops[1].bean.sent[i].kind # "send"

C28_Witness ==
    \E r \in Rows :
       /\ ~r.sent[1].ok
       /\ ~r.sent[2].ok
       /\ r.sent[1 + NotifyProviders].kind = "send"
       /\ r.sent[1 + NotifyProviders].ok
       /\ r.emitted
       /\ loops[1].via = "store"

\* The latest heartbeat of the monitor: the stored row of the greatest time.
LatestStatus ==
    IF heartbeats = <<>> THEN Undefined
    ELSE heartbeats[CHOOSE i \in DOMAIN heartbeats :
            \A j \in DOMAIN heartbeats : heartbeats[j].time <= heartbeats[i].time].status

\* C29: for every window and every set of heartbeats the ratio returned by
\* calcUptime is between 0 and 1.
C29_UptimeInUnitInterval ==
    \A e \in uptimeCache :
       /\ e.uptime.den > 0
       /\ 0 <= e.uptime.num
       /\ e.uptime.num <= e.uptime.den

C29_Witness ==
    \E e \in uptimeCache :
       /\ e.total > 0
       /\ 0 < e.uptime.num /\ e.uptime.num < e.uptime.den
       /\ \E i \in inWindow(e.duration) :
             trimmedDuration(heartbeats[i], startTime(e.duration))
                < heartbeats[i].duration

\* C30: when the trimmed total duration of the window is not positive,
\* calcUptime returns 1 if the latest heartbeat of the monitor is UP and 0
\* otherwise, however many heartbeats are stored.
C30_ZeroWindowFollowsLatest ==
    \A e \in uptimeCache :
       e.total <= 0 =>
          e.uptime = (IF LatestStatus = UP THEN [num |-> 1, den |-> 1]
                      ELSE [num |-> 0, den |-> 1])

\* The ticks that have finished: their heartbeat is stored.
TickFinished(k) == k \in DOMAIN heartbeats

\* C31: every important beat purges the UptimeCache of the monitor before its
\* heartbeat is emitted and stored: once the tick of an important beat has
\* finished, no entry of the cache was put there before that beat.
C31_NoEntryFromBeforeBeat ==
    \A r \in Rows :
       r.important => (r.emitted /\ \A e \in uptimeCache : e.epoch >= r.id)

C31_Witness ==
    /\ Len(heartbeats) = 2 /\ heartbeats[2].important
    /\ stats[1].pc = "done"
    /\ \E e \in uptimeCache : e.epoch = 2 /\ e.by = 2

\* C39: once a tick has stored its heartbeat and the statistics started by
\* that tick have finished, every entry of the UptimeCache was computed from
\* heartbeats that include that heartbeat.
C39_NoStaleUptime ==
    \A k \in DOMAIN heartbeats :
       stats[k].pc = "done" => \A e \in uptimeCache : e.seen >= k

RECURSIVE AncestorsFrom(_, _)
\* The monitor and the monitors reached from it through the parent column.
AncestorsFrom(id, seen) ==
    IF id = 0 \/ id \in seen THEN seen
    ELSE AncestorsFrom(monitor.parent[id], seen \cup {id})
SelfAndAncestors == AncestorsFrom(monitor.id, {})

\* The decision of the maintenance check of a tick that has taken it.
MaintenanceDecision ==
    /\ loops[1].pc = "store" =>
          ((/\ loops[1].bean.status = MAINTENANCE
            /\ loops[1].bean.msg = <<"Monitor under maintenance">>
            /\ loops[1].bean.outcome # "probe")
           <=> SelfAndAncestors \cap monitor.maintenance # {})
    /\ loops[1].pc = "probe" => SelfAndAncestors \cap monitor.maintenance = {}

\* C33: the tick gets the status MAINTENANCE with the message "Monitor under
\* maintenance" and runs no probe exactly when the monitor or one of its
\* ancestors has an active maintenance window, and the walk up the parent
\* column ends: it makes no more calls than there are monitors.
C33_MaintenanceIffAncestor ==
    /\ MaintenanceDecision
    /\ loops[1].calls <= MaxMonitors

\* C34: after the normalization of a tick the timeout is positive, and a
\* configured timeout that is unset or not positive has become 0.8 times
\* the interval: the request's own timeout is 800 ms per second of interval
\* and the abort signal fires 10 s later than that.
C34_TimeoutIsFourFifthsOfInterval ==
    /\ loops[1].pc \in {"probe", "request"} => monitor.timeout > 0
    /\ (loops[1].pc = "request" /\ monitor.configured <= 0) =>
          /\ loops[1].options.timeout = 800 * monitor.interval
          /\ loops[1].options.signal = 800 * monitor.interval + 10000

\* After the normalization of a tick the timeout is positive.
TimeoutPositive == loops[1].pc \in {"probe", "request"} => monitor.timeout > 0

\* The fields whose key ends in "content", collected through the objects
\* and arrays of the response body or of all its data lines but [DONE].
CollectedFields ==
    LET res == loops[1].res
    IN CASE res.type \in {"object", "json text"} -> findContentFields(res.json)
         [] res.type = "sse" -> allContentFields(res.frames, 1)
         [] OTHER -> <<>>
AllCollectedNull ==
    /\ CollectedFields # <<>>
    /\ \A i \in DOMAIN CollectedFields : CollectedFields[i].value = JNull

\* C35: with checkContentParameter enabled and an accepted response, the
\* probe of an http monitor is turned into a failure (DOWN, the message
\* listing the field paths) exactly when the fields whose key ends in
\* "content" are not none and every one of them is null; otherwise the
\* probe stays UP and ends without an error.
C35_DownIffAllContentNull ==
    loops[1].pc \in {"done", "catch"} =>
        IF AllCollectedNull
        THEN /\ loops[1].pc = "catch"
             /\ loops[1].bean.status = DOWN
             /\ loops[1].bean.msg = <<"all content parameters are null">>
                                      \o joinPaths(CollectedFields, 1)
        ELSE /\ loops[1].pc = "done"
             /\ loops[1].bean.status = UP

\* The decision of C35 for every response that has no truthy value under a
\* top-level key _allContentFields.
ContentDecisionWithoutMarker ==
    ~truthy(getKey(loops[1].res.json, "_allContentFields"))
        => C35_DownIffAllContentNull

\* C36: no heartbeat with the status PENDING is stored right after a
\* heartbeat with the status DOWN, whatever the probe outcomes, the
\* maintenance windows and the type of the monitor.
C36_NoPendingAfterDown ==
    \A i \in DOMAIN heartbeats :
        (i > 1 /\ heartbeats[i - 1].status = DOWN)
            => heartbeats[i].status # PENDING

\* C37: while a monitor that was started once is not stopped, either its
\* tick is in flight and no timer is pending, or no tick is in flight and
\* exactly one timer for the next tick is pending; this holds after a
\* stored heartbeat, after the early return of a push tick and after an
\* exception.
C37_OneTickOrOneTimer ==
    ~isStop =>
        \/ loops[1].pc \in InFlight /\ loops[1].timers = 0
        \/ loops[1].pc \in Pending /\ loops[1].timers = 1

C37_Witness ==
    /\ ~isStop
    /\ monitor.type = "push"
    /\ loops[1].pc = "timer" /\ loops[1].via = "catch"
    /\ loops[1].timers = 1
    /\ \E i \in DOMAIN heartbeats : heartbeats[i].outcome # "api"

\* The tick of loop l dispatches its notification in this step.
Dispatches(l) ==
    /\ loops[l].pc = "notify"
    /\ loops'[l].pc = "store"
    /\ loops'[l].bean.sent # <<>>

\* The heartbeat loop l has emitted is stored in this step.
Persists(l) ==
    /\ Len(heartbeats') = Len(heartbeats) + 1
    /\ heartbeats'[Len(heartbeats')].emitSeq = loops[l].bean.emitSeq
    /\ heartbeats'[Len(heartbeats')].loop = loops[l].bean.loop

\* C38: a status transition is notified at most once and an emitted
\* heartbeat is persisted, also when R.store fails: the tick after a tick
\* that was abandoned with its notification dispatched does not dispatch
\* one for the same transition (the same previous heartbeat and the same
\* new status), and a heartbeat that was emitted is not dropped before it
\* is stored.
C38_NotifiedOnceAndPersisted ==
    [][\A l \in Loops :
         /\ Dispatches(l) =>
               ~(/\ loops[l].abandoned.sent # <<>>
                 /\ loops[l].abandoned.prevId = loops[l].bean.prevId
                 /\ loops[l].abandoned.status = loops[l].bean.status)
         /\ loops[l].bean.emitted =>
               (loops'[l].bean.emitted \/ Persists(l))]_vars

\* The first half of C38 alone: no second dispatch for one transition.
NotifiedOnce ==
    [][\A l \in Loops :
         Dispatches(l) =>
            ~(/\ loops[l].abandoned.sent # <<>>
              /\ loops[l].abandoned.prevId = loops[l].bean.prevId
              /\ loops[l].abandoned.status = loops[l].bean.status)]_vars

\* No file is imported twice, and none that the database had when it was
\* first opened.
PatchedAtMostOnce ==
    /\ \A i, j \in DOMAIN database.executed :
          i # j => database.executed[i] # database.executed[j]
    /\ \A i \in DOMAIN database.executed :
          database.executed[i] \notin database.base

\* A file is imported only after all of its parents.
PatchedAfterParents ==
    \A i \in DOMAIN database.executed :
        LET parents == database.patchList[database.executed[i]]
        IN \A p \in DOMAIN parents :
              \/ parents[p] \in database.base
              \/ \E j \in 1..(i - 1) : database.executed[j] = parents[p]

\* C40: over the life of a database each file of patchList is executed at
\* most once and only after all of its parents, also when a later patch of
\* a run fails and the server is started again.
C40_PatchesRunOnce ==
    /\ PatchedAtMostOnce
    /\ PatchedAfterParents

====
